---- MODULE Spec2Model ----
(***************************************************************************)
(* Model of the cross-file symbol resolution engine of adl-lsp:            *)
(*   - the module path resolver (server/modules.rs, server/packages.rs),   *)
(*   - the fully-qualified-name cache (server/imports/mod.rs),             *)
(*   - the document ingestion pipeline (server/state.rs).                  *)
(*                                                                         *)
(* Representation.                                                         *)
(*   PathBuf   a sequence of path components, <<"p","adl","a.adl">>        *)
(*   Url       a record [scheme, path]; Url::from_file_path and Url::path  *)
(*             convert between the two (all components are URL-safe)       *)
(*   module    a dotted module name, split at the dots: <<"a","b">>        *)
(*   Fqn       [module_name, type_name]                                    *)
(*   text      the content of a file: its module name, the names of its    *)
(*             local definitions in document order and its import          *)
(*             declarations in document order                              *)
(*   tree      the parse of one text.  A tree holds node kinds and byte    *)
(*             ranges only; the spelling of a node is read from the        *)
(*             content handed to the query (Node::utf8_text(content))      *)
(*   Option<T> a set with at most one element                              *)
(***************************************************************************)
EXTENDS Integers, Sequences, FiniteSets, TLC

VARIABLES
    cache,      \* ImportsCache: definition_locations, imported_symbols, defined_symbols
    documents,  \* AdlLanguageServerState.documents : Url -> text
    trees,      \* AdlLanguageServerState.trees     : Url -> tree
    symbols,    \* AdlLanguageServerState.symbols   : Url -> document symbols
    disk,       \* the file system: PathBuf -> text
    ing,        \* position and locals of the ingestion in progress
    lastText,   \* history: Url -> text of its last completed ingestion
    lastUri,    \* history: Option<Url> of the most recent completed ingestion
    obs,        \* Option<response> of the last cache query
    rq          \* the last call of the module path resolver

vars == <<cache, documents, trees, symbols, disk, ing, lastText, lastUri, obs, rq>>

-----------------------------------------------------------------------------
(* Bounds of the model *)

MaxDefs == 1        \* local definitions per text
MaxImports == 1     \* import declarations per text
MaxDepth == 2       \* segments of a module name handed to the resolver
MaxDirs == 2        \* search directories handed to the resolver

Segments == {"a", "b"}
TypeNames == {"T"}
ModuleNames == {<<s>> : s \in Segments}

Root1 == <<"p", "adl">>
Root2 == <<"p", "lib">>
Root3 == <<"q">>

-----------------------------------------------------------------------------
(* Generic helpers for maps with a varying domain (HashMap) *)

Put(f, k, v) == [x \in (DOMAIN f) \cup {k} |-> IF x = k THEN v ELSE f[x]]

Remove(f, k) == [x \in (DOMAIN f) \ {k} |-> f[x]]

GetOrDefault(f, k) == IF k \in DOMAIN f THEN f[k] ELSE {}

EmptyMap == [x \in {} |-> {}]

RECURSIVE SeqsUpTo(_, _)
SeqsUpTo(S, n) ==
    IF n = 0 THEN {<<>>}
    ELSE LET shorter == SeqsUpTo(S, n - 1)
         IN shorter \cup {Append(s, x) : s \in {q \in shorter : Len(q) = n - 1}, x \in S}

Range(s) == {s[i] : i \in 1..Len(s)}

\* the orders in which the elements of a set can be enumerated
RECURSIVE Perms(_)
Perms(S) ==
    IF S = {} THEN {<<>>}
    ELSE UNION {{<<x>> \o p : p \in Perms(S \ {x})} : x \in S}

-----------------------------------------------------------------------------
(* Paths, URLs, names *)

AdlFileName(segment) ==
    CASE segment = "a" -> "a.adl"
      [] segment = "b" -> "b.adl"
      [] segment = "c" -> "c.adl"
      [] segment = "x" -> "x.adl"
      [] OTHER -> "other.adl"

from_file_path(path) == [scheme |-> "file", path |-> path]

UrlPath(uri) == uri.path

from_module_name_and_type_name(module_name, type_name) ==
    [module_name |-> module_name, type_name |-> type_name]

module_path(fqn) == fqn.module_name

\* root.join(format!("{}.adl", imported_module_path.join("/")))
JoinModuleFile(root, imported_module_path) ==
    LET n == Len(imported_module_path)
    IN root \o [i \in 1..n |-> IF i = n THEN AdlFileName(imported_module_path[i])
                                        ELSE imported_module_path[i]]

\* Path::ancestors(): the path itself, its parent, ..., the root directory
RECURSIVE Ancestors(_)
Ancestors(path) ==
    IF path = <<>> THEN <<path>>
    ELSE <<path>> \o Ancestors(SubSeq(path, 1, Len(path) - 1))

\* Iterator::nth(n), counted from zero
Nth(s, n) == IF n < Len(s) THEN {s[n + 1]} ELSE {}

-----------------------------------------------------------------------------
(* The module path resolver, server/modules.rs *)

RECURSIVE ScanPackageRoots(_, _, _, _, _)
ScanPackageRoots(package_roots, i, source_package_target_path, imported_module_path, document_exists) ==
    IF i > Len(package_roots) THEN {}
    ELSE LET target_path == JoinModuleFile(package_roots[i], imported_module_path)
         IN IF target_path \in source_package_target_path
            THEN ScanPackageRoots(package_roots, i + 1, source_package_target_path,
                                  imported_module_path, document_exists)
            ELSE IF target_path \in document_exists
            THEN {from_file_path(target_path)}
            ELSE ScanPackageRoots(package_roots, i + 1, source_package_target_path,
                                  imported_module_path, document_exists)

\* source_path.ancestors().nth(source_module_depth), one level too low
adl_root_off_by_one(source_uri, source_module) ==
    Nth(Ancestors(UrlPath(source_uri)), Len(source_module) - 1)

adl_root(source_uri, source_module) ==
    Nth(Ancestors(UrlPath(source_uri)), Len(source_module))

source_package_target_path(source_uri, source_module, imported_module_path) ==
    {JoinModuleFile(adl, imported_module_path) : adl \in adl_root(source_uri, source_module)}

\* resolve_import that trusts the same-package path without asking document_exists
modules_resolve_import_unchecked(package_roots, source_uri, source_module, imported_module_path, document_exists) ==
    LET sptp == source_package_target_path(source_uri, source_module, imported_module_path)
    IN IF sptp # {}
       THEN {from_file_path(p) : p \in sptp}
       ELSE ScanPackageRoots(package_roots, 1, sptp, imported_module_path, document_exists)

modules_resolve_import(package_roots, source_uri, source_module, imported_module_path, document_exists) ==
    LET sptp == source_package_target_path(source_uri, source_module, imported_module_path)
    IN IF \E p \in sptp : p \in document_exists
       THEN {from_file_path(p) : p \in sptp}
       ELSE ScanPackageRoots(package_roots, 1, sptp, imported_module_path, document_exists)

-----------------------------------------------------------------------------
(* The module path resolver, server/packages.rs *)

\* the first loop: the first package root, in the iteration order of the map,
\* whose set of known files holds the target
RECURSIVE ScanAdlFiles(_, _, _, _)
ScanAdlFiles(search_dirs_map, order, i, imported_module_path) ==
    IF i > Len(order) THEN {}
    ELSE LET target_uri == from_file_path(JoinModuleFile(order[i], imported_module_path))
         IN IF target_uri \in search_dirs_map[order[i]]
            THEN {target_uri}
            ELSE ScanAdlFiles(search_dirs_map, order, i + 1, imported_module_path)

\* order is the order in which this HashMap yields its keys
packages_resolve_import(search_dirs_map, order, source_uri, source_module, imported_module_path, document_exists) ==
    LET known == ScanAdlFiles(search_dirs_map, order, 1, imported_module_path)
        sptp == source_package_target_path(source_uri, source_module, imported_module_path)
    IN IF known # {} THEN known
       ELSE IF \E p \in sptp : p \in document_exists
       THEN {from_file_path(p) : p \in sptp}
       ELSE ScanPackageRoots(order, 1, sptp, imported_module_path, document_exists)

-----------------------------------------------------------------------------
(* Texts and trees *)

FullyQualified(module_name, type_name) ==
    [kind |-> "FullyQualified", module_name |-> module_name, type_name |-> type_name]

StarImport(module_name) ==
    [kind |-> "StarImport", module_name |-> module_name, type_name |-> "*"]

ImportDeclarations ==
    {FullyQualified(m, n) : m \in ModuleNames, n \in TypeNames}
        \cup {StarImport(m) : m \in ModuleNames}

DefLists == SeqsUpTo(TypeNames, MaxDefs)

ImportLists == SeqsUpTo(ImportDeclarations, MaxImports)

\* the modules of the files the editor sends
SourceModules == {<<"a">>}

Texts == [module : SourceModules, defs : DefLists, imports : ImportLists]

\* files as they lie on disk
DiskTexts == [module : ModuleNames, defs : DefLists, imports : {<<>>}]

\* an empty file: its tree is a source_file node without a module_definition
EmptyFile == [module |-> <<>>, defs |-> <<>>, imports |-> <<>>]

\* stands for the contents on which tree_sitter::Parser::parse gives up (it was
\* cancelled or ran out of time) and returns no tree
Unparsed == [module |-> <<"cancelled">>, defs |-> <<>>, imports |-> <<>>]

\* what the editor can send for a file
EditorTexts == Texts \cup {EmptyFile, Unparsed}

\* AdlParser::parse: Option<ParsedTree>
parse(text) == IF text = Unparsed THEN {} ELSE {[text |-> text]}

\* the files of the workspace
Paths == {JoinModuleFile(root, m) : root \in {Root1, Root2}, m \in ModuleNames}

\* the files the editor opens and edits
Urls == {from_file_path(JoinModuleFile(root, m)) : root \in {Root1, Root2}, m \in SourceModules}

Fqns == {from_module_name_and_type_name(m, n) : m \in ModuleNames, n \in TypeNames}

\* ServerConfig: the search directories in declaration order
search_dirs == <<Root1, Root2>>

\* fs::exists / fs::metadata(..).is_ok()
document_exists == DOMAIN disk

\* ImportsCache::find_type_definitions(tree, content): the module name and the
\* type names are the spellings, in content, of the ranges of the tree's nodes.
\* A range past the end of content makes utf8_text panic (slice out of range),
\* and a tree without a module_definition makes the expect on it panic.
find_type_definitions(tree, content) ==
    LET n == Len(tree.text.defs)
    IN IF tree.text.module = <<>> \/ n > Len(content.defs)
       THEN [panic |-> TRUE, type_names |-> <<>>]
       ELSE [panic |-> FALSE,
             type_names |-> [i \in 1..n |->
                 from_module_name_and_type_name(content.module, content.defs[i])]]

\* ParsedTree::collect_document_symbols: the module with its definitions
collect_document_symbols(tree, content) ==
    IF tree.text.module = <<>> THEN <<>>
    ELSE <<[name |-> content.module,
            children |-> SubSeq(content.defs, 1, Len(tree.text.defs))]>>

\* the FQNs a text defines locally
LocalFqns(text) ==
    {from_module_name_and_type_name(text.module, text.defs[i]) : i \in 1..Len(text.defs)}

-----------------------------------------------------------------------------
(* The FQN cache, server/imports/mod.rs *)

EmptyCache ==
    [definition_locations |-> EmptyMap, imported_symbols |-> EmptyMap,
     defined_symbols |-> EmptyMap]

lookup_fqn(c, fqn) ==
    IF fqn \in DOMAIN c.definition_locations THEN {c.definition_locations[fqn]} ELSE {}

get_files_importing_type(c, fqn) ==
    {uri \in DOMAIN c.imported_symbols : fqn \in c.imported_symbols[uri]}

\* add_import that also files the name under the target
add_import_under_both(c, source_uri, fqn, target_uri) ==
    [definition_locations |-> Put(c.definition_locations, fqn, target_uri),
     imported_symbols |-> Put(Put(c.imported_symbols, source_uri,
                                  GetOrDefault(c.imported_symbols, source_uri) \cup {fqn}),
                              target_uri,
                              GetOrDefault(c.imported_symbols, target_uri) \cup {fqn}),
     defined_symbols |-> Put(c.defined_symbols, target_uri,
                             GetOrDefault(c.defined_symbols, target_uri) \cup {fqn})]

add_import(c, source_uri, fqn, target_uri) ==
    [definition_locations |-> Put(c.definition_locations, fqn, target_uri),
     imported_symbols |-> Put(c.imported_symbols, source_uri,
                              GetOrDefault(c.imported_symbols, source_uri) \cup {fqn}),
     defined_symbols |-> Put(c.defined_symbols, target_uri,
                             GetOrDefault(c.defined_symbols, target_uri) \cup {fqn})]

add_definition(c, source_uri, fqn) ==
    [definition_locations |-> Put(c.definition_locations, fqn, source_uri),
     imported_symbols |-> c.imported_symbols,
     defined_symbols |-> Put(c.defined_symbols, source_uri,
                             GetOrDefault(c.defined_symbols, source_uri) \cup {fqn})]

\* clear_source_caches that leaves definition_locations alone
clear_source_caches_keep_locations(c, source_uri) ==
    [definition_locations |-> c.definition_locations,
     imported_symbols |-> Remove(c.imported_symbols, source_uri),
     defined_symbols |-> Remove(c.defined_symbols, source_uri)]

\* clear_source_caches removing only the locations that point to the source
clear_source_caches_own_locations(c, source_uri) ==
    LET definitions == GetOrDefault(c.defined_symbols, source_uri)
    IN [definition_locations |->
            [q \in {d \in DOMAIN c.definition_locations :
                        d \notin definitions \/ c.definition_locations[d] # source_uri}
                |-> c.definition_locations[q]],
        imported_symbols |-> Remove(c.imported_symbols, source_uri),
        defined_symbols |-> Remove(c.defined_symbols, source_uri)]

clear_source_caches(c, source_uri) ==
    LET definitions == GetOrDefault(c.defined_symbols, source_uri)
    IN [definition_locations |->
            [q \in (DOMAIN c.definition_locations) \ definitions |-> c.definition_locations[q]],
        imported_symbols |-> Remove(c.imported_symbols, source_uri),
        defined_symbols |-> Remove(c.defined_symbols, source_uri)]

\* add_import for each of a list of targets
RECURSIVE add_import_each(_, _, _, _, _)
add_import_each(c, source_uri, fqn, targets, i) ==
    IF i > Len(targets) THEN c
    ELSE add_import_each(add_import(c, source_uri, fqn, from_file_path(targets[i])),
                         source_uri, fqn, targets, i + 1)

\* resolve_fully_qualified_import recording every candidate that exists, the
\* same-package one and the one of each package root
resolve_fully_qualified_import_every_candidate(c, package_roots, source_uri, source_module, import) ==
    LET all == [i \in 1..Len(package_roots) |-> JoinModuleFile(package_roots[i], module_path(import))]
                  \o [i \in 1..Cardinality(source_package_target_path(source_uri, source_module, module_path(import)))
                          |-> CHOOSE p \in source_package_target_path(source_uri, source_module, module_path(import)) : TRUE]
    IN add_import_each(c, source_uri, import, SelectSeq(all, LAMBDA p : p \in DOMAIN disk), 1)

\* ImportsCache::resolve_fully_qualified_import
resolve_fully_qualified_import(c, package_roots, source_uri, source_module, import) ==
    LET possible_paths == modules_resolve_import(package_roots, source_uri, source_module,
                                                 module_path(import), document_exists)
    IN IF \E target_uri \in possible_paths : UrlPath(target_uri) \in DOMAIN disk
       THEN LET target_uri == CHOOSE t \in possible_paths : TRUE
            IN add_import(c, source_uri, import, target_uri)
       ELSE c

-----------------------------------------------------------------------------
(* The ingestion pipeline, server/state.rs and ImportManager *)

\* the entries of the three indices that belong to one file
Contribution(c, uri) ==
    [definition_locations |-> {q \in DOMAIN c.definition_locations : c.definition_locations[q] = uri},
     imported_symbols |-> IF uri \in DOMAIN c.imported_symbols THEN {c.imported_symbols[uri]} ELSE {},
     defined_symbols |-> IF uri \in DOMAIN c.defined_symbols THEN {c.defined_symbols[uri]} ELSE {}]

NoText == [module |-> <<>>, defs |-> <<>>, imports |-> <<>>]

Idle == [pc |-> "idle", uri |-> from_file_path(<<>>), text |-> NoText, j |-> 0,
         pending |-> <<>>, target |-> {}, pre |-> Contribution(EmptyCache, from_file_path(<<>>)),
         queue |-> <<>>]

\* the position after ingest_document has returned: back in the loop of
\* initialize_workspace while it has files left, else out of the handler
Returned(queue) ==
    [Idle EXCEPT !.pc = IF queue = <<>> THEN "idle" ELSE "init", !.queue = queue]

\* The machine an ingestion works on: m = [cache, documents, trees, ing].

\* where the ingestion goes when import j is the next one to process
AtImport(text, j) == IF j > Len(text.imports) THEN "commit" ELSE "imports"

\* ingest_document once it has a tree: the symbols are stored, then
\* resolve_document_imports evicts the entries of the file and lists the
\* definitions to register
ingest_parsed_document(m, uri, text, parsed_tree) ==
    LET found == find_type_definitions(parsed_tree, text)
    IN [cache |-> clear_source_caches(m.cache, uri),
        documents |-> m.documents,
        trees |-> m.trees,
        symbols |-> Put(m.symbols, uri, collect_document_symbols(parsed_tree, text)),
        ing |-> [pc |-> IF found.panic THEN "panicked"
                        ELSE IF found.type_names = <<>> THEN AtImport(text, 1)
                        ELSE "defs",
                 uri |-> uri, text |-> text, j |-> 1,
                 pending |-> found.type_names, target |-> {},
                 pre |-> Contribution(m.cache, uri),
                 queue |-> m.ing.queue]]

\* ingest_document that evicts the entries of the file before it looks at the
\* result of the parse
ingest_document_evict_first(m, uri, text) ==
    IF parse(text) = {}
    THEN [m EXCEPT !.cache = clear_source_caches(m.cache, uri), !.ing = Returned(m.ing.queue)]
    ELSE ingest_parsed_document(m, uri, text, CHOOSE t \in parse(text) : TRUE)

\* AdlLanguageServerState::ingest_document: parser.parse(..)? returns at once
\* when there is no tree
ingest_document(m, uri, text) ==
    IF parse(text) = {}
    THEN [m EXCEPT !.ing = Returned(m.ing.queue)]
    ELSE ingest_parsed_document(m, uri, text, CHOOSE t \in parse(text) : TRUE)

\* register_document_definitions: one add_definition of its loop
register_document_definitions(m) ==
    [m EXCEPT !.cache = add_definition(m.cache, m.ing.uri, Head(m.ing.pending)),
              !.ing.pending = Tail(m.ing.pending),
              !.ing.pc = IF Len(m.ing.pending) > 1 THEN "defs" ELSE AtImport(m.ing.text, 1)]

\* get_or_parse_document_tree that keeps the tree it parsed and not the text
get_or_parse_document_tree_without_text(m, target_uri) ==
    IF target_uri \in DOMAIN m.trees
    THEN [m EXCEPT !.ing.target = {m.trees[target_uri]}]
    ELSE IF UrlPath(target_uri) \in DOMAIN disk /\ parse(disk[UrlPath(target_uri)]) # {}
    THEN LET parsed_tree == CHOOSE t \in parse(disk[UrlPath(target_uri)]) : TRUE
         IN [m EXCEPT !.trees = Put(m.trees, target_uri, parsed_tree),
                      !.ing.target = {parsed_tree}]
    ELSE [m EXCEPT !.ing.target = {}]

\* the closure get_or_parse_document_tree of ingest_document
get_or_parse_document_tree(m, target_uri) ==
    IF target_uri \in DOMAIN m.trees
    THEN [m EXCEPT !.ing.target = {m.trees[target_uri]}]
    ELSE IF UrlPath(target_uri) \in DOMAIN disk /\ parse(disk[UrlPath(target_uri)]) # {}
    THEN LET target_content == disk[UrlPath(target_uri)]
             parsed_tree == CHOOSE t \in parse(target_content) : TRUE
         IN [m EXCEPT !.trees = Put(m.trees, target_uri, parsed_tree),
                      !.documents = Put(m.documents, target_uri, target_content),
                      !.ing.target = {parsed_tree}]
    ELSE [m EXCEPT !.ing.target = {}]

\* expand_star_import up to its loop over the type definitions of the target
expand_star_import(m, package_roots, imported_module_path) ==
    LET imported_module == modules_resolve_import(package_roots, m.ing.uri, m.ing.text.module,
                                                  imported_module_path, document_exists)
        readable == {t \in imported_module : UrlPath(t) \in DOMAIN disk}
        skip == [m EXCEPT !.ing.j = m.ing.j + 1, !.ing.pc = AtImport(m.ing.text, m.ing.j + 1)]
    IN IF readable = {} THEN skip
       ELSE LET target_uri == CHOOSE t \in readable : TRUE
                target_content == disk[UrlPath(target_uri)]
                loaded == get_or_parse_document_tree(m, target_uri)
                target_tree == CHOOSE t \in loaded.ing.target : TRUE
                found == find_type_definitions(target_tree, target_content)
            IN IF loaded.ing.target = {} THEN skip
               ELSE IF found.panic
               THEN [loaded EXCEPT !.ing.pc = "panicked"]
               ELSE IF found.type_names = <<>>
               THEN [loaded EXCEPT !.ing.target = {}, !.ing.j = m.ing.j + 1,
                                   !.ing.pc = AtImport(m.ing.text, m.ing.j + 1)]
               ELSE [loaded EXCEPT !.ing.pc = "star", !.ing.pending = found.type_names,
                                   !.ing.target = {target_uri}]

\* process_import_declaration
process_import_declaration(m, package_roots) ==
    LET import_node == m.ing.text.imports[m.ing.j]
    IN IF import_node.kind = "FullyQualified"
       THEN LET fqn == from_module_name_and_type_name(import_node.module_name,
                                                      import_node.type_name)
            IN [m EXCEPT !.cache = resolve_fully_qualified_import(m.cache, package_roots,
                                         m.ing.uri, m.ing.text.module, fqn),
                         !.ing.j = m.ing.j + 1,
                         !.ing.pc = AtImport(m.ing.text, m.ing.j + 1)]
       ELSE expand_star_import(m, package_roots, import_node.module_name)

\* one add_import of the loop of expand_star_import
add_star_import(m) ==
    LET target_uri == CHOOSE t \in m.ing.target : TRUE
        added == add_import(m.cache, m.ing.uri, Head(m.ing.pending), target_uri)
    IN IF Len(m.ing.pending) > 1
       THEN [m EXCEPT !.cache = added, !.ing.pending = Tail(m.ing.pending)]
       ELSE [m EXCEPT !.cache = added, !.ing.pending = <<>>, !.ing.target = {},
                      !.ing.j = m.ing.j + 1, !.ing.pc = AtImport(m.ing.text, m.ing.j + 1)]

\* the end of ingest_document: store text and tree, publish, release the locks
commit_document(m) ==
    [m EXCEPT !.documents = Put(m.documents, m.ing.uri, m.ing.text),
              !.trees = Put(m.trees, m.ing.uri, CHOOSE t \in parse(m.ing.text) : TRUE),
              !.ing = Returned(m.ing.queue)]

\* one step of the ingestion in progress
IngestStep(m) ==
    CASE m.ing.pc = "defs" -> register_document_definitions(m)
      [] m.ing.pc = "imports" -> process_import_declaration(m, search_dirs)
      [] m.ing.pc = "star" -> add_star_import(m)
      [] m.ing.pc = "commit" -> commit_document(m)
      [] OTHER -> m

\* an ingestion from its current position to its end
RECURSIVE IngestRun(_)
IngestRun(m) ==
    IF m.ing.pc \in {"idle", "panicked", "init"} THEN m
    ELSE CHOOSE end \in {IngestRun(next) : next \in {IngestStep(m)}} : TRUE

Machine == [cache |-> cache, documents |-> documents, trees |-> trees,
            symbols |-> symbols, ing |-> ing]

\* main.rs runs the server on a current_thread runtime and no handler awaits:
\* a handler starts only when no other handler is running, and a handler that
\* needs a poisoned lock panics at once
HandlerMayRunAnytime == TRUE

HandlerMayRun == ing.pc = "idle"

\* Server::ingest_document, run to its end as the handlers of didOpen, didSave
\* and didChange do
Ingest(uri, text) ==
    /\ HandlerMayRun
    /\ \E m \in {IngestRun(ingest_document(Machine, uri, text))} :
          /\ cache' = m.cache
          /\ documents' = m.documents
          /\ trees' = m.trees
          /\ symbols' = m.symbols
          /\ ing' = m.ing
    /\ lastText' = Put(lastText, uri, text)
    /\ lastUri' = {uri}
    /\ UNCHANGED <<disk, obs, rq>>

NoCall == [impl |-> "unused"]

\* the workspaces: every file lies at the path of its module, and the files of
\* the library directory Root2 are complete
DiskStates == {d \in UNION {[S -> DiskTexts] : S \in SUBSET Paths} :
                  \A p \in DOMAIN d :
                      /\ AdlFileName(d[p].module[1]) = p[Len(p)]
                      /\ SubSeq(p, 1, Len(Root2)) = Root2 => Len(d[p].defs) = MaxDefs}

Init ==
    /\ cache = EmptyCache
    /\ documents = EmptyMap
    /\ trees = EmptyMap
    /\ symbols = EmptyMap
    /\ disk \in DiskStates
    /\ ing = Idle
    /\ lastText = EmptyMap
    /\ lastUri = {}
    /\ obs = {}
    /\ rq = NoCall

Next ==
    \E uri \in Urls, text \in Texts : Ingest(uri, text)

Spec == Init /\ [][Next]_vars

-----------------------------------------------------------------------------
(* Star imports between files whose definitions the editor renames *)

StarTypeNames == {"S", "T"}

StarTexts ==
    [module : SourceModules, defs : SeqsUpTo(StarTypeNames, MaxDefs),
     imports : {<<>>, <<StarImport(<<"a">>)>>}]

\* the files of module a, each absent or with some definitions, with or
\* without a star import of its own
StarDiskStates ==
    UNION {[S -> StarTexts] :
              S \in SUBSET {JoinModuleFile(root, <<"a">>) : root \in {Root1, Root2}}}

InitStar ==
    /\ cache = EmptyCache
    /\ documents = EmptyMap
    /\ trees = EmptyMap
    /\ symbols = EmptyMap
    /\ disk \in StarDiskStates
    /\ ing = Idle
    /\ lastText = EmptyMap
    /\ lastUri = {}
    /\ obs = {}
    /\ rq = NoCall

NextStar ==
    \E uri \in Urls, text \in StarTexts : Ingest(uri, text)

SpecStar == InitStar /\ [][NextStar]_vars

-----------------------------------------------------------------------------
(* The ingestion step by step, with the cache queries of the request handlers *)

Apply(m) ==
    /\ cache' = m.cache
    /\ documents' = m.documents
    /\ trees' = m.trees
    /\ symbols' = m.symbols
    /\ ing' = m.ing

IngestBegin(uri, text) ==
    /\ HandlerMayRun
    /\ Apply(ingest_document(Machine, uri, text))
    /\ obs' = IF parse(text) = {}
              THEN {[op |-> "ingest_document", uri |-> uri, result |-> {}, torn |-> FALSE]}
              ELSE {}
    /\ UNCHANGED <<disk, lastText, lastUri, rq>>

RegisterDefinition ==
    /\ ing.pc = "defs"
    /\ Apply(register_document_definitions(Machine))
    /\ UNCHANGED <<disk, lastText, lastUri, obs, rq>>

ProcessImport ==
    /\ ing.pc = "imports"
    /\ Apply(process_import_declaration(Machine, search_dirs))
    /\ UNCHANGED <<disk, lastText, lastUri, obs, rq>>

AddStarImport ==
    /\ ing.pc = "star"
    /\ Apply(add_star_import(Machine))
    /\ UNCHANGED <<disk, lastText, lastUri, obs, rq>>

\* the end of ingest_document with its client.publish_diagnostics
CommitDocument ==
    /\ ing.pc = "commit"
    /\ Apply(commit_document(Machine))
    /\ lastText' = Put(lastText, ing.uri, ing.text)
    /\ lastUri' = {ing.uri}
    /\ obs' = {[op |-> "publish_diagnostics", uri |-> ing.uri, result |-> {}, torn |-> FALSE]}
    /\ UNCHANGED <<disk, rq>>

\* the handler main registers last for DidChangeConfiguration, which replaces
\* the one of the router of Server: |_, _| ControlFlow::Continue(())
did_change_configuration(m, new_search_dirs) == m

DidChangeConfiguration ==
    /\ HandlerMayRun
    /\ \E new_search_dirs \in {<<Root1>>, <<Root2, Root1>>} :
          /\ Apply(did_change_configuration(Machine, new_search_dirs))
          /\ obs' = {[op |-> "did_change_configuration", search_dirs |-> new_search_dirs,
                      result |-> {}, torn |-> FALSE]}
    /\ UNCHANGED <<disk, lastText, lastUri, rq>>

\* handle_did_close_text_document that drops the closed file
handle_did_close_text_document_forget(m, uri) ==
    [m EXCEPT !.documents = Remove(m.documents, uri),
              !.trees = Remove(m.trees, uri),
              !.symbols = Remove(m.symbols, uri),
              !.cache = clear_source_caches(m.cache, uri)]

\* Server::handle_did_close_text_document
handle_did_close_text_document(m, uri) == m

DidClose(uri) ==
    /\ HandlerMayRun
    /\ Apply(handle_did_close_text_document(Machine, uri))
    /\ obs' = {[op |-> "did_close", uri |-> uri, result |-> {}, torn |-> FALSE]}
    /\ UNCHANGED <<disk, lastText, lastUri, rq>>

\* the entry of fqn that belonged to the file in ingestion has been evicted and
\* the ingestion has not yet added it again
DefinitionEvicted(fqn) ==
    /\ ing.pc \notin {"idle", "panicked"}
    /\ fqn \in ing.pre.definition_locations
    /\ fqn \in LocalFqns(ing.text)
    /\ lookup_fqn(cache, fqn) # {ing.uri}

ImportEvicted(fqn) ==
    /\ ing.pc \notin {"idle", "panicked"}
    /\ \E imported \in ing.pre.imported_symbols : fqn \in imported
    /\ \E i \in 1..Len(ing.text.imports) : ing.text.imports[i].module_name = fqn.module_name
    /\ ing.uri \notin get_files_importing_type(cache, fqn)

\* handle_goto_definition: ImportsCache::lookup_fqn
LookupFqn(fqn) ==
    /\ HandlerMayRun
    /\ obs' = {[op |-> "lookup_fqn", fqn |-> fqn, result |-> lookup_fqn(cache, fqn),
                torn |-> DefinitionEvicted(fqn)]}
    /\ UNCHANGED <<cache, documents, trees, symbols, disk, ing, lastText, lastUri, rq>>

\* handle_find_references: ImportsCache::get_files_importing_type
FilesImporting(fqn) ==
    /\ HandlerMayRun
    /\ obs' = {[op |-> "get_files_importing_type", fqn |-> fqn,
                result |-> get_files_importing_type(cache, fqn),
                torn |-> ImportEvicted(fqn)]}
    /\ UNCHANGED <<cache, documents, trees, symbols, disk, ing, lastText, lastUri, rq>>

\* Server::initialize_workspace: every file found in the workspace is read and
\* ingested, in the order in which the directories list their files
RECURSIVE IngestAll(_, _, _)
IngestAll(m, files, i) ==
    IF i > Len(files) \/ m.ing.pc = "panicked" THEN m
    ELSE CHOOSE end \in {IngestAll(next, files, i + 1) :
                next \in {IngestRun(ingest_document(m, from_file_path(files[i]), disk[files[i]]))}} : TRUE

EmptyMachine == [cache |-> EmptyCache, documents |-> EmptyMap, trees |-> EmptyMap,
                 symbols |-> EmptyMap, ing |-> Idle]

\* the server after handle_initialize: after initialize_workspace has ingested
\* every file of a workspace that has all its files, or of a client without
\* workspace folders when the library lacks the file of module a; the files on
\* disk are complete and the file of module b may import module a with a star
InitLocks ==
    /\ disk \in {Put(d, JoinModuleFile(Root1, <<"b">>),
                     [d[JoinModuleFile(Root1, <<"b">>)] EXCEPT !.imports = imports]) :
                  d \in {w \in DiskStates :
                            /\ Paths \ {JoinModuleFile(Root2, <<"a">>)} \subseteq DOMAIN w
                            /\ \A p \in DOMAIN w : Len(w[p].defs) = MaxDefs},
                  imports \in {<<>>, <<StarImport(<<"a">>)>>}}
    /\ \E files \in IF DOMAIN disk = Paths THEN Perms(Paths) ELSE {<<>>} :
          /\ \E m \in {IngestAll(EmptyMachine, files, 1)} :
                /\ cache = m.cache
                /\ documents = m.documents
                /\ trees = m.trees
                /\ symbols = m.symbols
                /\ ing = m.ing
          /\ lastText = [uri \in {from_file_path(files[i]) : i \in DOMAIN files} |->
                              disk[UrlPath(uri)]]
          /\ lastUri = {from_file_path(files[i]) : i \in {Len(files)} \ {0}}
    /\ obs = {}
    /\ rq = NoCall

NextLocks ==
    \/ \E uri \in Urls, text \in EditorTexts : IngestBegin(uri, text)
    \/ DidChangeConfiguration
    \/ \E uri \in Urls : DidClose(uri)
    \/ RegisterDefinition
    \/ ProcessImport
    \/ AddStarImport
    \/ CommitDocument
    \/ \E fqn \in Fqns : LookupFqn(fqn)
    \/ \E fqn \in Fqns : FilesImporting(fqn)

SpecLocks == InitLocks /\ [][NextLocks]_vars

-----------------------------------------------------------------------------
(* Calls of the module path resolver on their own *)

ResolveRoots == {Root1, Root2, Root3}

ResolveModuleNames == SeqsUpTo(Segments, MaxDepth) \ {<<>>}

\* resolve_import counts the segments of the source module and reads none
ResolveSourceModules == SeqsUpTo({"a"}, MaxDepth) \ {<<>>}

ResolveSourcePaths == {<<"a.adl">>, JoinModuleFile(Root1, <<"a">>), JoinModuleFile(Root1, <<"a", "b">>)}

\* the declared search directories: no directory twice
DirLists == UNION {Perms(S) : S \in {R \in SUBSET ResolveRoots : Cardinality(R) <= MaxDirs}}

\* every path resolve_import can ask its existence predicate about
CandidatePaths(source_path, source_module, imported_module_path, dirs) ==
    source_package_target_path(from_file_path(source_path), source_module, imported_module_path)
        \cup {JoinModuleFile(dirs[i], imported_module_path) : i \in 1..Len(dirs)}

\* package_root_to_adl_files: the known files of every search directory
SearchDirsMap(dirs, files) ==
    [package_root \in Range(dirs) |->
        {uri \in files : SubSeq(UrlPath(uri), 1, Len(package_root)) = package_root}]

ResolveCalls(source_paths) ==
    UNION {UNION {UNION {
        {[impl |-> "none",
          source_uri |-> from_file_path(sp), source_module |-> sm,
          imported_module_path |-> t, dirs |-> d, exists |-> e, files |-> f,
          order |-> <<>>, adl_root |-> {}, candidate |-> {}, result |-> {}] :
            f \in SUBSET {from_file_path(JoinModuleFile(d[i], t)) : i \in {k \in 1..Len(d) : JoinModuleFile(d[k], t) \in e}}} :
        e \in SUBSET CandidatePaths(sp, sm, t, d)} :
        d \in DirLists} :
        sp \in source_paths, sm \in ResolveSourceModules, t \in ResolveModuleNames}

\* modules::resolve_import, with the values of its locals
ResolveModules ==
    /\ rq.impl = "none"
    /\ rq' = [rq EXCEPT
                !.impl = "modules",
                !.order = rq.dirs,
                !.adl_root = adl_root(rq.source_uri, rq.source_module),
                !.candidate = source_package_target_path(rq.source_uri, rq.source_module,
                                                         rq.imported_module_path),
                !.result = modules_resolve_import(rq.dirs, rq.source_uri, rq.source_module,
                                                  rq.imported_module_path, rq.exists)]
    /\ UNCHANGED <<cache, documents, trees, symbols, disk, ing, lastText, lastUri, obs>>

\* packages::resolve_import: the order in which a HashMap yields its keys is
\* fixed by its hasher's random seed, not by the keys
ResolvePackages ==
    /\ rq.impl = "none"
    /\ \E order \in Perms(Range(rq.dirs)) :
          rq' = [rq EXCEPT
                   !.impl = "packages",
                   !.order = order,
                   !.adl_root = adl_root(rq.source_uri, rq.source_module),
                   !.candidate = source_package_target_path(rq.source_uri, rq.source_module,
                                                            rq.imported_module_path),
                   !.result = packages_resolve_import(SearchDirsMap(rq.dirs, rq.files), order,
                                  rq.source_uri, rq.source_module,
                                  rq.imported_module_path, rq.exists)]
    /\ UNCHANGED <<cache, documents, trees, symbols, disk, ing, lastText, lastUri, obs>>

InitResolve ==
    /\ cache = EmptyCache
    /\ documents = EmptyMap
    /\ trees = EmptyMap
    /\ symbols = EmptyMap
    /\ disk = EmptyMap
    /\ ing = Idle
    /\ lastText = EmptyMap
    /\ lastUri = {}
    /\ obs = {}
    /\ rq \in ResolveCalls(ResolveSourcePaths)

NextResolve ==
    \/ ResolveModules
    \/ ResolvePackages

SpecResolve == InitResolve /\ [][NextResolve]_vars

-----------------------------------------------------------------------------
(* The classification of import declarations, node/mod.rs.  A text is a      *)
(* sequence of tokens: identifiers, "." and "*".                              *)

Identifiers == Segments \cup TypeNames

\* scoped_name: seq(identifier, repeat(seq(".", identifier)))
RECURSIVE scoped_name(_)
scoped_name(path) ==
    IF Len(path) <= 1 THEN path
    ELSE scoped_name(SubSeq(path, 1, Len(path) - 1)) \o <<".", path[Len(path)]>>

\* import_path: seq(scoped_name, optional(".*")), by its children
import_path(path, star) ==
    IF star THEN <<scoped_name(path), <<".", "*">>>> ELSE <<scoped_name(path)>>

\* import_declaration: seq("import", import_path, ";"), by its children
import_declaration(path, star) == <<<<"import">>, import_path(path, star), <<";">>>>

\* Node::utf8_text of a node given by its children
RECURSIVE utf8_text(_)
utf8_text(children) ==
    IF children = <<>> THEN <<>> ELSE Head(children) \o utf8_text(Tail(children))

\* str::rfind('.'): the index of the last dot
rfind_dot(full_name) ==
    LET dots == {i \in 1..Len(full_name) : full_name[i] = "."}
    IN IF dots = {} THEN {} ELSE {CHOOSE i \in dots : \A k \in dots : k <= i}

\* str::find('.'): the index of the first dot
find_dot(full_name) ==
    LET dots == {i \in 1..Len(full_name) : full_name[i] = "."}
    IN IF dots = {} THEN {} ELSE {CHOOSE i \in dots : \A k \in dots : i <= k}

\* str::split('.') of a dotted name
split_dot(name) == SelectSeq(name, LAMBDA token : token # ".")

\* AdlImportDeclaration::is_star_import: the import_path has a second child
is_star_import(node) == Len(node[2]) > 1

\* AdlImportDeclaration::try_new
try_new(node) == IF is_star_import(node) THEN "StarImport" ELSE "FullyQualified"

\* module_name that cuts a fully qualified name at its first dot
import_module_name_first_dot(node) ==
    IF try_new(node) = "FullyQualified"
    THEN LET full_name == utf8_text(node[2])
         IN IF find_dot(full_name) # {}
            THEN SubSeq(full_name, 1, (CHOOSE i \in find_dot(full_name) : TRUE) - 1)
            ELSE full_name
    ELSE node[2][1]

\* AdlImportDeclaration::module_name
import_module_name(node) ==
    IF try_new(node) = "FullyQualified"
    THEN LET full_name == utf8_text(node[2])
         IN IF rfind_dot(full_name) # {}
            THEN SubSeq(full_name, 1, (CHOOSE i \in rfind_dot(full_name) : TRUE) - 1)
            ELSE full_name
    ELSE node[2][1]

\* AdlImportDeclaration::imported_type_name: Option<&str>
imported_type_name(node) ==
    IF try_new(node) = "FullyQualified"
    THEN LET parts == split_dot(utf8_text(node[2])) IN {parts[Len(parts)]}
    ELSE {}

\* the import declarations handed to the classification: every path of
\* identifiers, the type name included, with and without ".*"
ImportSyntax(depth) ==
    {[impl |-> "import_declaration", path |-> path, star |-> star, kind |-> "",
      module_name |-> <<>>, module_path |-> <<>>, type_name |-> {}] :
        path \in SeqsUpTo(Identifiers, depth + 1) \ {<<>>}, star \in BOOLEAN}

\* process_import_declaration: the declaration as the ingestion reads it
ClassifyImport ==
    /\ rq.impl = "import_declaration"
    /\ LET node == import_declaration(rq.path, rq.star)
       IN rq' = [rq EXCEPT !.impl = "classified",
                           !.kind = try_new(node),
                           !.module_name = import_module_name(node),
                           !.module_path = split_dot(import_module_name(node)),
                           !.type_name = imported_type_name(node)]
    /\ UNCHANGED <<cache, documents, trees, symbols, disk, ing, lastText, lastUri, obs>>

InitClassify ==
    /\ cache = EmptyCache
    /\ documents = EmptyMap
    /\ trees = EmptyMap
    /\ symbols = EmptyMap
    /\ disk = EmptyMap
    /\ ing = Idle
    /\ lastText = EmptyMap
    /\ lastUri = {}
    /\ obs = {}
    /\ rq \in ImportSyntax(MaxDepth)

NextClassify == ClassifyImport

SpecClassify == InitClassify /\ [][NextClassify]_vars

-----------------------------------------------------------------------------
(* The trees of the request handlers: the user-defined names of a text in    *)
(* document order, parser/tree.rs, node/kind.rs                               *)

MaxUses == 1        \* fields per text whose type is a named type

\* a node: its kind, its spelling, the kinds from the node up to the root, the
\* spelling of its parent and of its first child, the import declaration it
\* lies in (by its index) and its range
TreeNode(kind, text, above, parent_text, child, import, range) ==
    [kind |-> kind, text |-> text, ancestors |-> <<kind>> \o above,
     parent_text |-> parent_text, child |-> child, import |-> import, range |-> range]

NodeRange(site, index, first, last) ==
    [site |-> site, index |-> index, first |-> first, last |-> last]

\* scoped_name: the node and its identifier children
ScopedNameNodes(path, above, import, site, index) ==
    <<TreeNode("scoped_name", scoped_name(path), above, <<>>, {<<path[1]>>}, import,
               NodeRange(site, index, 1, Len(path)))>>
    \o [i \in 1..Len(path) |->
           TreeNode("identifier", <<path[i]>>, <<"scoped_name">> \o above,
                    scoped_name(path), {}, import, NodeRange(site, index, i, i))]

RECURSIVE Flatten(_)
Flatten(lists) == IF lists = <<>> THEN <<>> ELSE Head(lists) \o Flatten(Tail(lists))

\* the path an import declaration spells
ImportPathOf(import) ==
    IF import.kind = "FullyQualified"
    THEN import.module_name \o <<import.type_name>>
    ELSE import.module_name

\* the import_declaration node of the j-th import of a text
ImportNode(text, j) ==
    import_declaration(ImportPathOf(text.imports[j]), text.imports[j].kind = "StarImport")

InModuleBody == <<"module_body", "module_definition", "source_file">>

\* field: seq(optional preamble, type_expression, identifier, ..)
FieldNodes(text, u) ==
    ScopedNameNodes(<<text.uses[u]>>,
                    <<"type_expression", "field", "field_block", "struct_definition">> \o InModuleBody,
                    {}, "use", u)
    \o <<TreeNode("identifier", <<"f">>, <<"field", "field_block", "struct_definition">> \o InModuleBody,
                  <<>>, {}, {}, NodeRange("field", u, 1, 1))>>

\* struct_definition: seq(optional preamble, "struct", type_name, .., field_block);
\* the fields of a text are those of its first definition
DefinitionNodes(text, k) ==
    <<TreeNode("type_name", <<text.defs[k]>>, <<"struct_definition">> \o InModuleBody,
               <<>>, {<<text.defs[k]>>}, {}, NodeRange("definition", k, 1, 1)),
      TreeNode("identifier", <<text.defs[k]>>, <<"type_name", "struct_definition">> \o InModuleBody,
               <<text.defs[k]>>, {}, {}, NodeRange("definition", k, 1, 1))>>
    \o (IF k = 1 THEN Flatten([u \in 1..Len(text.uses) |-> FieldNodes(text, u)]) ELSE <<>>)

\* Tree::find_all_nodes_from(root, NodeKind::is_user_defined_name): walk_and_filter
\* visits a node before its children and the children in the order of the text
find_all_nodes(text) ==
    LET imports == Flatten([j \in 1..Len(text.imports) |->
                       ScopedNameNodes(ImportPathOf(text.imports[j]),
                                       <<"import_path", "import_declaration">> \o InModuleBody,
                                       {j}, "import", j)])
        definitions == Flatten([k \in 1..Len(text.defs) |-> DefinitionNodes(text, k)])
    IN ScopedNameNodes(text.module, <<"module_definition", "source_file">>, {}, "module", 1)
       \o (IF text.imports_first THEN imports \o definitions ELSE definitions \o imports)

is_identifier(n) == n.kind = "identifier"

is_scoped_name(n) == n.kind = "scoped_name"

is_type_name(n) == n.kind = "type_name"

is_user_defined_name(n) == is_identifier(n) \/ is_type_name(n) \/ is_scoped_name(n)

\* NodeKind::is_definition, of the kind of a node
is_definition(kind) == kind \in {"import_declaration", "type_name"}

\* ParsedTree::is_from_definition: the node or one of its ancestors
is_from_definition(n) == \E i \in DOMAIN n.ancestors : is_definition(n.ancestors[i])

\* ParsedTree::is_from_import_declaration
is_from_import_declaration(n) == \E i \in DOMAIN n.ancestors : n.ancestors[i] = "import_declaration"

has_scoped_name_parent(n) ==
    is_identifier(n) /\ Len(n.ancestors) >= 2 /\ n.ancestors[2] = "scoped_name"

can_be_referenced(n) ==
    is_identifier(n) /\ Len(n.ancestors) >= 2 /\ n.ancestors[2] = "type_name"

\* a position of a request: the index of an identifier in document order, or 0
\* for a position on a keyword or on punctuation
Positions(text) ==
    LET nodes == find_all_nodes(text)
    IN {0} \cup {i \in DOMAIN nodes : is_identifier(nodes[i])}

\* ParsedTree::get_identifier_at: Option<(&str, Node)>
get_identifier_at(tree, position) ==
    LET nodes == find_all_nodes(tree.text)
    IN IF position \in DOMAIN nodes /\ is_identifier(nodes[position])
       THEN {nodes[position]} ELSE {}

Location(uri, range) == [uri |-> uri, range |-> range]

Resolved(location) == [kind |-> "Resolved", location |-> location]

UnresolvedImport(source_module, target_module_path, identifier) ==
    [kind |-> "Import", source_module |-> source_module,
     target_module_path |-> target_module_path, identifier |-> identifier]

\* str::ends_with
ends_with(text, suffix) ==
    Len(text) >= Len(suffix) /\ SubSeq(text, Len(text) - Len(suffix) + 1, Len(text)) = suffix

\* ParsedTree::definition_location
definition_location(uri, text, n) ==
    IF is_from_import_declaration(n)
    THEN UnresolvedImport(text.module,
                          split_dot(import_module_name(ImportNode(text, CHOOSE j \in n.import : TRUE))),
                          n.text[1])
    ELSE Resolved(Location(uri, n.range))

\* the scoped names that end with the identifier, as definition_impl reads them
\* when no definition and no import spells it
scoped_name_location(uri, text, identifier, n) ==
    LET parts == split_dot(n.text)
    IN IF Len(parts) > 1
       THEN UnresolvedImport(text.module, SubSeq(parts, 1, Len(parts) - 1), identifier)
       ELSE Resolved(Location(uri, n.range))

\* ParsedTree::definition_impl: Option<DefinitionLocation>, the first in
\* document order
definition_impl(uri, text, identifier) ==
    LET nodes == find_all_nodes(text)
        direct == SelectSeq(nodes, LAMBDA n :
                       n.text = <<identifier>>
                           /\ (is_from_import_declaration(n)
                                   \/ (is_from_definition(n) /\ ~is_identifier(n))))
        scoped == SelectSeq(nodes, LAMBDA n :
                       is_scoped_name(n)
                           /\ (ends_with(n.text, <<".", identifier>>) \/ n.text = <<identifier>>))
    IN IF direct # <<>>
       THEN {definition_location(uri, text, direct[1])}
       ELSE IF scoped # <<>>
            THEN {scoped_name_location(uri, text, identifier, scoped[1])}
            ELSE {}

\* find_references_impl without its last filter: a scoped name and the
\* identifier below it are both kept
find_references_every_name(uri, text, identifier) ==
    LET names == SelectSeq(find_all_nodes(text), LAMBDA n :
                     /\ n.text = <<identifier>>
                     /\ ~is_from_definition(n) /\ ~is_from_import_declaration(n))
    IN [i \in 1..Len(names) |-> Location(uri, names[i].range)]

\* ParsedTree::find_references_impl: Vec<Location>
find_references(uri, text, identifier) ==
    LET names == SelectSeq(find_all_nodes(text), LAMBDA n :
                     /\ n.text = <<identifier>>
                     /\ ~is_from_definition(n) /\ ~is_from_import_declaration(n)
                     /\ (is_identifier(n) =>
                            ~(Len(n.ancestors) >= 2 /\ n.ancestors[2] = "scoped_name"
                                /\ n.parent_text = <<identifier>>)))
    IN [i \in 1..Len(names) |-> Location(uri, names[i].range)]

\* ParsedTree::hover_impl with get_hover_text: for every user-defined name
\* whose first child lies in a definition and spells the identifier, the text
\* of the node above it
hover(text, identifier) ==
    LET names == SelectSeq(find_all_nodes(text), LAMBDA n :
                     /\ n.child = {<<identifier>>}
                     /\ is_from_definition([n EXCEPT !.ancestors = <<"identifier">> \o n.ancestors]))
    IN [i \in 1..Len(names) |->
           [language |-> "adl", value |-> <<names[i].ancestors[2], names[i].range>>]]

-----------------------------------------------------------------------------
(* The request handlers, server/mod.rs *)

\* Server::get_or_parse_document: a file that has no tree is read from disk and
\* ingested
get_or_parse_document(m, uri) ==
    IF uri \in DOMAIN m.trees THEN m
    ELSE IF UrlPath(uri) \in DOMAIN disk
         THEN IngestRun(ingest_document(m, uri, disk[UrlPath(uri)]))
         ELSE m

\* Server::get_or_parse_document_with_content
get_or_parse_document_with_content(m, uri) ==
    IF uri \in DOMAIN m.trees /\ uri \in DOMAIN m.documents THEN m
    ELSE IF UrlPath(uri) \in DOMAIN disk
         THEN IngestRun(ingest_document(m, uri, disk[UrlPath(uri)]))
         ELSE m

\* AdlLanguageServerState::get_document_tree_and_content: Option<(ParsedTree, String)>
get_document_tree_and_content(m, uri) ==
    IF uri \in DOMAIN m.trees /\ uri \in DOMAIN m.documents
    THEN {[uri |-> uri, tree |-> m.trees[uri], content |-> m.documents[uri]]}
    ELSE {}

\* Server::resolve_import_from_table up to the call of process_import: the
\* server after the lookup and the target handed to process_import, if any
resolve_import_from_table(m, import) ==
    IF lookup_fqn(m.cache, import) = {} THEN [m |-> m, target |-> {}]
    ELSE LET target_uri == CHOOSE uri \in lookup_fqn(m.cache, import) : TRUE
         IN CHOOSE r \in {[m |-> loaded,
                           target |-> get_document_tree_and_content(loaded, target_uri)] :
                              loaded \in {get_or_parse_document(m, target_uri)}} : TRUE

\* what a handler leaves: the server, whether it searched the file for a
\* definition and whether it looked the import up in the cache, and its result
\* Result<Option<..>, ResponseError>
Reply(m, lookup, cache_lookup, error, value) ==
    [m |-> m, lookup |-> lookup, cache_lookup |-> cache_lookup, error |-> error, value |-> value]

INTERNAL_ERROR == "INTERNAL_ERROR"

\* the closure of handle_goto_definition, made to follow the import it finds
\* in the target into the file the cache has for it
goto_definition_process_import_second_hop(r, identifier) ==
    IF r.target = {} THEN Reply(r.m, TRUE, TRUE, {INTERNAL_ERROR}, {})
    ELSE LET t == CHOOSE x \in r.target : TRUE
             found == definition_impl(t.uri, t.tree.text, identifier)
         IN IF found = {} THEN Reply(r.m, TRUE, TRUE, {INTERNAL_ERROR}, {})
            ELSE LET d == CHOOSE l \in found : TRUE
                 IN IF d.kind = "Resolved" THEN Reply(r.m, TRUE, TRUE, {}, {d.location})
                    ELSE LET second == UNION {get_document_tree_and_content(r.m, u) :
                                 u \in lookup_fqn(r.m.cache, from_module_name_and_type_name(
                                                      d.target_module_path, identifier))}
                             further == UNION {definition_impl(x.uri, x.tree.text, identifier) :
                                                  x \in second}
                         IN IF further # {} /\ (CHOOSE l \in further : TRUE).kind = "Resolved"
                            THEN Reply(r.m, TRUE, TRUE, {}, {(CHOOSE l \in further : TRUE).location})
                            ELSE Reply(r.m, TRUE, TRUE, {INTERNAL_ERROR}, {})

\* the closure handle_goto_definition hands to resolve_import_from_table, and
\* the error of resolve_import_from_table when it has no target to hand over
goto_definition_process_import(r, identifier) ==
    IF r.target = {} THEN Reply(r.m, TRUE, TRUE, {INTERNAL_ERROR}, {})
    ELSE LET t == CHOOSE x \in r.target : TRUE
             found == definition_impl(t.uri, t.tree.text, identifier)
         IN IF found # {} /\ (CHOOSE l \in found : TRUE).kind = "Resolved"
            THEN Reply(r.m, TRUE, TRUE, {}, {(CHOOSE l \in found : TRUE).location})
            ELSE Reply(r.m, TRUE, TRUE, {INTERNAL_ERROR}, {})

\* handle_goto_definition from the search of the current file on
goto_definition_of(m, uri, text, identifier) ==
    LET definition == definition_impl(uri, text, identifier)
    IN IF definition = {} THEN Reply(m, TRUE, FALSE, {}, {})
       ELSE LET d == CHOOSE l \in definition : TRUE
            IN IF d.kind = "Resolved" THEN Reply(m, TRUE, FALSE, {}, {d.location})
               ELSE CHOOSE reply \in
                        {goto_definition_process_import(r, identifier) :
                            r \in {resolve_import_from_table(m,
                                      from_module_name_and_type_name(d.target_module_path, identifier))}} :
                        TRUE

\* handle_goto_definition once the document is loaded, letting through the
\* names that can be referenced
goto_definition_can_be_referenced(loaded, uri, position) ==
    LET found == get_document_tree_and_content(loaded, uri)
    IN IF found = {} THEN Reply(loaded, FALSE, FALSE, {}, {})
       ELSE LET tree == (CHOOSE f \in found : TRUE).tree
                at == get_identifier_at(tree, position)
            IN IF at = {} \/ ~can_be_referenced(CHOOSE n \in at : TRUE)
               THEN Reply(loaded, FALSE, FALSE, {}, {})
               ELSE goto_definition_of(loaded, uri, tree.text, (CHOOSE n \in at : TRUE).text[1])

\* handle_goto_definition once the document is loaded
goto_definition(loaded, uri, position) ==
    LET found == get_document_tree_and_content(loaded, uri)
    IN IF found = {} THEN Reply(loaded, FALSE, FALSE, {}, {})
       ELSE LET tree == (CHOOSE f \in found : TRUE).tree
                at == get_identifier_at(tree, position)
            IN IF at = {} \/ ~has_scoped_name_parent(CHOOSE n \in at : TRUE)
               THEN Reply(loaded, FALSE, FALSE, {}, {})
               ELSE goto_definition_of(loaded, uri, tree.text, (CHOOSE n \in at : TRUE).text[1])

\* Server::handle_goto_definition
handle_goto_definition(m, uri, position) ==
    CHOOSE reply \in {goto_definition(loaded, uri, position) :
                         loaded \in {get_or_parse_document_with_content(m, uri)}} : TRUE

\* the closure handle_hover_request hands to resolve_import_from_table
hover_process_import(r, hover_items, identifier) ==
    IF r.target = {} THEN Reply(r.m, TRUE, TRUE, {INTERNAL_ERROR}, {})
    ELSE Reply(r.m, TRUE, TRUE, {},
               {hover_items \o hover((CHOOSE x \in r.target : TRUE).tree.text, identifier)})

\* handle_hover_request once the document is loaded
hover_request(loaded, uri, position) ==
    LET found == get_document_tree_and_content(loaded, uri)
    IN IF found = {} THEN Reply(loaded, FALSE, FALSE, {}, {})
       ELSE LET tree == (CHOOSE f \in found : TRUE).tree
                at == get_identifier_at(tree, position)
            IN IF at = {} THEN Reply(loaded, FALSE, FALSE, {}, {})
               ELSE LET identifier == (CHOOSE n \in at : TRUE).text[1]
                        definition == definition_impl(uri, tree.text, identifier)
                        hover_items == hover(tree.text, identifier)
                    IN IF definition = {} \/ (CHOOSE l \in definition : TRUE).kind = "Resolved"
                       THEN Reply(loaded, TRUE, FALSE, {}, {hover_items})
                       ELSE CHOOSE reply \in
                                {hover_process_import(r, hover_items, identifier) :
                                    r \in {resolve_import_from_table(loaded,
                                              from_module_name_and_type_name(
                                                  (CHOOSE l \in definition : TRUE).target_module_path,
                                                  identifier))}} :
                                TRUE

\* Server::handle_hover_request
handle_hover_request(m, uri, position) ==
    CHOOSE reply \in {hover_request(loaded, uri, position) :
                         loaded \in {get_or_parse_document_with_content(m, uri)}} : TRUE

\* the references of one importing file, once it is loaded
imported_references(loaded, importing_file_uri, identifier) ==
    IF importing_file_uri \in DOMAIN loaded.trees /\ importing_file_uri \in DOMAIN loaded.documents
    THEN find_references(importing_file_uri, loaded.trees[importing_file_uri].text, identifier)
    ELSE <<>>

\* the loop of handle_find_references over the files that import the type
RECURSIVE references_in_importing_files(_, _, _, _, _)
references_in_importing_files(m, uri, identifier, importing_files, i) ==
    IF i > Len(importing_files) THEN [m |-> m, references |-> <<>>]
    ELSE IF importing_files[i] = uri
         THEN references_in_importing_files(m, uri, identifier, importing_files, i + 1)
         ELSE CHOOSE all \in UNION {
                  {[m |-> rest.m,
                    references |-> imported_references(loaded, importing_files[i], identifier)
                                       \o rest.references] :
                      rest \in {references_in_importing_files(loaded, uri, identifier,
                                                              importing_files, i + 1)}} :
                  loaded \in {get_or_parse_document(m, importing_files[i])}} : TRUE

\* handle_find_references once the document is loaded
find_references_request(loaded, uri, position, include_declaration, order) ==
    LET found == get_document_tree_and_content(loaded, uri)
    IN IF found = {} THEN Reply(loaded, FALSE, FALSE, {}, {})
       ELSE LET tree == (CHOOSE f \in found : TRUE).tree
                at == get_identifier_at(tree, position)
            IN IF at = {} \/ ~can_be_referenced(CHOOSE n \in at : TRUE)
               THEN Reply(loaded, FALSE, FALSE, {}, {})
               ELSE LET identifier == (CHOOSE n \in at : TRUE).text[1]
                        local_references == find_references(uri, tree.text, identifier)
                        fqn == from_module_name_and_type_name(tree.text.module, identifier)
                        importing_files ==
                            SelectSeq(order, LAMBDA f : f \in get_files_importing_type(loaded.cache, fqn))
                        definition == definition_impl(uri, tree.text, identifier)
                        declaration ==
                            IF include_declaration /\ definition # {}
                               /\ (CHOOSE l \in definition : TRUE).kind = "Resolved"
                            THEN <<(CHOOSE l \in definition : TRUE).location>>
                            ELSE <<>>
                    IN CHOOSE reply \in
                           {Reply(imported.m, TRUE, TRUE, {},
                                  IF local_references \o imported.references \o declaration = <<>>
                                  THEN {}
                                  ELSE {local_references \o imported.references \o declaration}) :
                               imported \in {references_in_importing_files(loaded, uri, identifier,
                                                                           importing_files, 1)}} : TRUE

\* Server::handle_find_references; order is the order in which the map of the
\* imported symbols hands out its files
handle_find_references(m, uri, position, include_declaration, order) ==
    CHOOSE reply \in {find_references_request(loaded, uri, position, include_declaration, order) :
                         loaded \in {get_or_parse_document_with_content(m, uri)}} : TRUE

\* the files of the queried workspace: M holds module a, F1 and F2 hold module b
QueryM == JoinModuleFile(Root1, <<"a">>)
QueryF1 == JoinModuleFile(Root1, <<"b">>)
QueryF2 == JoinModuleFile(Root2, <<"b">>)

QueryUrls == {from_file_path(p) : p \in {QueryM, QueryF1, QueryF2}}

\* the files that may hold import declarations
ImportingUrls == {from_file_path(p) : p \in {QueryM, QueryF1, QueryF2}}

\* the texts of a module: imports stand above the definitions unless the text
\* both defines and imports the same name, which it may do in either order
QueryTextsOf(module_name, defs, imports) ==
    {text \in [module : {module_name}, defs : defs, imports : imports,
               uses : SeqsUpTo(TypeNames, MaxUses), imports_first : BOOLEAN] :
        /\ text.uses # <<>> => text.defs # <<>>
        /\ ~text.imports_first =>
              \E j \in DOMAIN text.imports : text.imports[j].type_name \in Range(text.defs)}

\* M defines T, with or without an import of its own T by name, or imports T
\* from module b by name, or is empty; F1 defines
\* S or T, F2 defines S, and each may import T from module a by name or with a
\* star and may use T as the type of a field
QueryDiskStates ==
    LET Imports == {<<>>, <<FullyQualified(<<"a">>, "T")>>, <<StarImport(<<"a">>)>>}
        TextsAt(p) ==
            IF p = QueryM
            THEN QueryTextsOf(<<"a">>, {<<>>, <<"T">>}, {<<>>})
                     \cup QueryTextsOf(<<"a">>, {<<>>}, {<<FullyQualified(<<"b">>, "T")>>})
                     \cup {text \in QueryTextsOf(<<"a">>, {<<"T">>},
                                                  {<<FullyQualified(<<"a">>, "T")>>}) :
                               text.imports_first /\ text.uses # <<>>}
            ELSE IF p = QueryF1 THEN QueryTextsOf(<<"b">>, {<<"S">>, <<"T">>}, Imports)
            ELSE QueryTextsOf(<<"b">>, {<<"S">>}, Imports)
    IN UNION {{d \in [S -> UNION {TextsAt(p) : p \in S}] : \A p \in S : d[p] \in TextsAt(p)} :
                 S \in SUBSET {QueryM, QueryF1, QueryF2}}

\* the server of a client without workspace folders, or after
\* initialize_workspace has ingested every file of the workspace
InitQuery ==
    /\ disk \in QueryDiskStates
    /\ \E files \in {<<>>} \cup Perms(DOMAIN disk) :
          /\ \E m \in {IngestAll(EmptyMachine, files, 1)} :
                /\ cache = m.cache
                /\ documents = m.documents
                /\ trees = m.trees
                /\ symbols = m.symbols
                /\ ing = m.ing
          /\ lastText = [uri \in {from_file_path(files[i]) : i \in DOMAIN files} |->
                              disk[UrlPath(uri)]]
          /\ lastUri = {}
    /\ obs = {}
    /\ rq = NoCall

\* a handler has run: the server it leaves and its response
Respond(op, uri, position, include_declaration, reply) ==
    /\ cache' = reply.m.cache
    /\ documents' = reply.m.documents
    /\ trees' = reply.m.trees
    /\ symbols' = reply.m.symbols
    /\ ing' = reply.m.ing
    /\ obs' = {[op |-> op, uri |-> uri, position |-> position,
                include_declaration |-> include_declaration,
                lookup |-> reply.lookup, cache_lookup |-> reply.cache_lookup,
                error |-> reply.error, value |-> reply.value]}
    /\ UNCHANGED <<disk, lastText, lastUri, rq>>

\* the positions of a request in a file: those of its text as the server holds
\* it, or as the disk holds it
RequestPositions(uri) ==
    IF uri \in DOMAIN documents THEN Positions(documents[uri])
    ELSE IF UrlPath(uri) \in DOMAIN disk THEN Positions(disk[UrlPath(uri)]) ELSE {0}

\* the server reads a request when it has sent the response to the one before
RequestArrives == HandlerMayRun /\ obs = {}

\* the client takes the response
ResponseDelivered ==
    /\ obs # {}
    /\ obs' = {}
    /\ UNCHANGED <<cache, documents, trees, symbols, disk, ing, lastText, lastUri, rq>>

GotoDefinition ==
    /\ RequestArrives
    /\ \E uri \in QueryUrls : \E position \in RequestPositions(uri) :
          \E reply \in {handle_goto_definition(Machine, uri, position)} :
              Respond("goto_definition", uri, position, FALSE, reply)

HoverRequest ==
    /\ RequestArrives
    /\ \E uri \in QueryUrls : \E position \in RequestPositions(uri) :
          \E reply \in {handle_hover_request(Machine, uri, position)} :
              Respond("hover", uri, position, FALSE, reply)

FindReferences ==
    /\ RequestArrives
    /\ \E uri \in QueryUrls : \E position \in RequestPositions(uri) :
          \E include_declaration \in BOOLEAN, order \in Perms(ImportingUrls) :
              \E reply \in {handle_find_references(Machine, uri, position, include_declaration, order)} :
                  Respond("find_references", uri, position, include_declaration, reply)

NextQuery == GotoDefinition \/ HoverRequest \/ FindReferences \/ ResponseDelivered

SpecQuery == InitQuery /\ [][NextQuery]_vars

-----------------------------------------------------------------------------
(* The diagnostic of imports out of order, parser/diagnostics.rs.  A module   *)
(* body is the sequence of the kinds of its children, in document order.      *)

MaxMembers == 3     \* members of a module body

\* what stands between the braces of a module body: the members the grammar
\* lists, and comments and docstrings
MemberKinds ==
    {"import_declaration", "annotation_declaration", "struct_definition", "comment", "docstring"}

\* module_body: seq("{", repeat(choice(import_declaration, ...)), "}")
module_body(members) == <<"{">> \o members \o <<"}">>

\* the loop of collect_import_diagnostics from the sibling at index i on: the
\* first sibling that is no import, no docstring and no comment
RECURSIVE first_non_import_from(_, _)
first_non_import_from(children, i) ==
    IF i > Len(children) THEN {}
    ELSE IF children[i] \notin {"import_declaration", "docstring", "comment"} THEN {i}
    ELSE first_non_import_from(children, i + 1)

\* collect_import_diagnostics whose loop stops at a comment as well
collect_import_diagnostics_stop_at_comment(children) ==
    LET first == {i \in 2..Len(children) :
                     /\ children[i] \notin {"import_declaration", "docstring"}
                     /\ \A j \in 2..(i - 1) : children[j] \in {"import_declaration", "docstring"}}
    IN SelectSeq([i \in 1..Len(children) |-> i],
                 LAMBDA i : children[i] = "import_declaration" /\ \E f \in first : i > f)

\* ParsedTree::collect_import_diagnostics: the positions of the imports that
\* get the diagnostic, in document order; the cursor starts on the first child,
\* the opening brace, and the loop runs over the siblings after it
collect_import_diagnostics(children) ==
    LET imports == SelectSeq([i \in 1..Len(children) |-> i],
                             LAMBDA i : children[i] = "import_declaration")
        first_non_import == first_non_import_from(children, 2)
    IN IF first_non_import = {} THEN <<>>
       ELSE SelectSeq(imports, LAMBDA i : i > (CHOOSE f \in first_non_import : TRUE))

ModuleBodies ==
    {[impl |-> "module_body", members |-> members, diagnostics |-> <<>>] :
        members \in SeqsUpTo(MemberKinds, MaxMembers)}

\* collect_diagnostics: the import diagnostics of the tree
CollectImportDiagnostics ==
    /\ rq.impl = "module_body"
    /\ rq' = [rq EXCEPT !.impl = "diagnosed",
                        !.diagnostics = collect_import_diagnostics(module_body(rq.members))]
    /\ UNCHANGED <<cache, documents, trees, symbols, disk, ing, lastText, lastUri, obs>>

InitDiagnostics ==
    /\ cache = EmptyCache
    /\ documents = EmptyMap
    /\ trees = EmptyMap
    /\ symbols = EmptyMap
    /\ disk = EmptyMap
    /\ ing = Idle
    /\ lastText = EmptyMap
    /\ lastUri = {}
    /\ obs = {}
    /\ rq \in ModuleBodies

NextDiagnostics == CollectImportDiagnostics

SpecDiagnostics == InitDiagnostics /\ [][NextDiagnostics]_vars

-----------------------------------------------------------------------------
(* The tree walks, parser/tree.rs.  A tree is the sequence of the parents of  *)
(* its nodes and the sequence of their kinds: node 1 is the root, the parent  *)
(* of a node has a smaller number, and the children of a node stand in the    *)
(* order of their numbers.                                                    *)

MaxNodes == 5       \* nodes of a tree

WalkKinds == {"import_declaration", "comment"}

WalkTrees ==
    UNION {{[parent |-> parent, kind |-> kind] :
               parent \in {p \in [1..n -> 0..(n - 1)] : p[1] = 0 /\ \A i \in 2..n : p[i] \in 1..(i - 1)},
               kind \in [1..n -> WalkKinds]} : n \in 1..MaxNodes}

\* Node::child(..): the children of node i in their order
children_of(tree, i) ==
    SelectSeq([j \in 1..Len(tree.parent) |-> j], LAMBDA j : tree.parent[j] = i)

\* TreeCursor::goto_first_child: the node the cursor moves to, if any
goto_first_child(tree, i) ==
    IF children_of(tree, i) = <<>> THEN {} ELSE {children_of(tree, i)[1]}

\* TreeCursor::goto_next_sibling: the node the cursor moves to, if any; the
\* cursor does not leave the node it was created on, the root
goto_next_sibling(tree, i) ==
    IF tree.parent[i] = 0 THEN {}
    ELSE LET later == SelectSeq(children_of(tree, tree.parent[i]), LAMBDA j : j > i)
         IN IF later = <<>> THEN {} ELSE {later[1]}

\* walk_and_filter that goes to the next sibling before it goes down
RECURSIVE walk_and_filter_siblings_first(_, _, _, _)
walk_and_filter_siblings_first(tree, i, f, early) ==
    IF tree.kind[i] = f /\ early THEN <<i>>
    ELSE (IF tree.kind[i] = f THEN <<i>> ELSE <<>>)
         \o (IF goto_next_sibling(tree, i) = {} THEN <<>>
             ELSE walk_and_filter_siblings_first(tree, CHOOSE j \in goto_next_sibling(tree, i) : TRUE,
                                                 f, early))
         \o (IF goto_first_child(tree, i) = {} THEN <<>>
             ELSE walk_and_filter_siblings_first(tree, CHOOSE j \in goto_first_child(tree, i) : TRUE,
                                                 f, early))

\* Tree::walk_and_filter with the cursor on node i: one turn of the loop and
\* the turns after it; f is the kind the predicate asks for
RECURSIVE walk_and_filter(_, _, _, _)
walk_and_filter(tree, i, f, early) ==
    IF tree.kind[i] = f /\ early THEN <<i>>
    ELSE (IF tree.kind[i] = f THEN <<i>> ELSE <<>>)
         \o (IF goto_first_child(tree, i) = {} THEN <<>>
             ELSE walk_and_filter(tree, CHOOSE j \in goto_first_child(tree, i) : TRUE, f, early))
         \o (IF goto_next_sibling(tree, i) = {} THEN <<>>
             ELSE walk_and_filter(tree, CHOOSE j \in goto_next_sibling(tree, i) : TRUE, f, early))

\* Tree::find_all_nodes over the nodes of a tree
walk_find_all_nodes(tree, f) == walk_and_filter(tree, 1, f, FALSE)

\* Tree::find_first_node: Option<Node>
find_first_node(tree, f) ==
    LET found == walk_and_filter(tree, 1, f, TRUE)
    IN IF found = <<>> THEN {} ELSE {found[1]}

WalkCalls ==
    {[impl |-> "walk", tree |-> tree, f |-> f, all |-> <<>>, first |-> {}] :
        tree \in WalkTrees, f \in WalkKinds}

\* a caller searches the tree for the nodes of a kind, all of them and the first
FindNodes ==
    /\ rq.impl = "walk"
    /\ rq' = [rq EXCEPT !.impl = "walked",
                        !.all = walk_find_all_nodes(rq.tree, rq.f),
                        !.first = find_first_node(rq.tree, rq.f)]
    /\ UNCHANGED <<cache, documents, trees, symbols, disk, ing, lastText, lastUri, obs>>

InitWalk ==
    /\ cache = EmptyCache
    /\ documents = EmptyMap
    /\ trees = EmptyMap
    /\ symbols = EmptyMap
    /\ disk = EmptyMap
    /\ ing = Idle
    /\ lastText = EmptyMap
    /\ lastUri = {}
    /\ obs = {}
    /\ rq \in WalkCalls

NextWalk == FindNodes

SpecWalk == InitWalk /\ [][NextWalk]_vars

-----------------------------------------------------------------------------
(* The locks of the server state, for operations running on clones of the   *)
(* server: every clone shares the Arc'ed locks. An operation is the         *)
(* sequence of its lock instructions.                                        *)

MaxClones == 3

MaxCalls == 1

Clones == 1 .. MaxClones

RECURSIVE Repeat(_, _)
Repeat(p, n) == IF n = 0 THEN <<>> ELSE p \o Repeat(p, n - 1)

\* ImportsCache::lookup_fqn: a temporary read guard
lookup_fqn_locks == << <<"read", "definition_locations">>, <<"return">> >>

\* ImportsCache::get_files_importing_type
get_files_importing_type_locks == << <<"read", "imported_symbols">>, <<"return">> >>

add_import_locks ==
    << <<"write", "definition_locations">>, <<"write", "imported_symbols">>,
       <<"write", "defined_symbols">>, <<"mutate">>,
       <<"drop", {"definition_locations", "imported_symbols", "defined_symbols"}>> >>

add_definition_locks ==
    << <<"write", "definition_locations">>, <<"write", "defined_symbols">>, <<"mutate">>,
       <<"drop", {"definition_locations", "defined_symbols"}>> >>

clear_source_caches_locks ==
    << <<"write", "imported_symbols">>, <<"write", "defined_symbols">>,
       <<"write", "definition_locations">>, <<"mutate">>,
       <<"drop", {"definition_locations", "imported_symbols", "defined_symbols"}>> >>

\* resolve_document_imports: the eviction, then either the panic of
\* find_type_definitions or the definitions and the imports
resolve_document_imports_locks(defs, imports, panics) ==
    clear_source_caches_locks
    \o (IF panics THEN << <<"panic">> >>
        ELSE Repeat(add_definition_locks, defs) \o Repeat(add_import_locks, imports))

\* AdlLanguageServerState::ingest_document after a successful parse: its
\* guards live to the end of the function
state_ingest_document_locks(defs, imports, panics) ==
    << <<"write", "symbols">>, <<"mutate">>,
       <<"write", "adl_file_to_package_root">>, <<"write", "package_root_to_adl_files">>,
       <<"write", "documents">>, <<"write", "trees">> >>
    \o resolve_document_imports_locks(defs, imports, panics)
    \o << <<"mutate">>, <<"return">> >>

\* Server::ingest_document: the parser mutex, then the ingestion
server_ingest_document_locks(body) == << <<"lock", "parser">> >> \o body

get_document_content_locks == << <<"read", "documents">>, <<"return">> >>

get_document_tree_locks == << <<"read", "trees">>, <<"return">> >>

\* get_document_tree_and_content taking the trees first
get_document_tree_and_content_trees_first ==
    << <<"read", "trees">>, <<"read", "documents">>, <<"return">> >>

get_document_tree_and_content_locks ==
    << <<"read", "documents">>, <<"read", "trees">>, <<"return">> >>

get_cached_document_symbols_locks == << <<"read", "symbols">>, <<"return">> >>

\* ingestions that take no lock but those of the cache operations
IngestProgramsUnlocked ==
    {resolve_document_imports_locks(defs, imports, FALSE) \o << <<"return">> >> :
        defs \in 0 .. MaxCalls, imports \in 0 .. MaxCalls}

\* the ingestions: one stopped by a parse failure, and the others
IngestPrograms ==
    {server_ingest_document_locks(<< <<"return">> >>)}
    \cup {server_ingest_document_locks(state_ingest_document_locks(defs, imports, panics)) :
            defs \in 0 .. MaxCalls, imports \in 0 .. MaxCalls, panics \in BOOLEAN}

QueryPrograms ==
    {lookup_fqn_locks, get_files_importing_type_locks, get_document_content_locks,
     get_document_tree_locks, get_document_tree_and_content_locks,
     get_cached_document_symbols_locks}

IdleClone == [prog |-> <<>>, pc |-> 0, held |-> {}, mutating |-> FALSE]

Running(t) == rq.th[t].pc > 0

Instruction(t) == rq.th[t].prog[rq.th[t].pc]

Acquiring(t) == Running(t) /\ Instruction(t)[1] \in {"lock", "write", "read"}

\* the clones whose guard keeps t from its lock: any guard for a Mutex or a
\* write, a write guard for a read
Holders(t) ==
    {u \in Clones :
        \E g \in rq.th[u].held :
            /\ g[2] = Instruction(t)[2]
            /\ Instruction(t)[1] = "read" => g[1] = "write"}

\* a read may also queue behind a waiting writer: std leaves the priority of
\* RwLock unspecified
QueuedBehind(t) ==
    IF Instruction(t)[1] = "read"
    THEN {u \in Clones \ {t} :
            /\ Acquiring(u)
            /\ Instruction(u) = <<"write", Instruction(t)[2]>>}
    ELSE {}

Blocked(t) == Acquiring(t) /\ Holders(t) \cup QueuedBehind(t) # {}

\* unwinding drops the guards; a Mutex or write guard dropped while
\* panicking poisons its lock
Unwind(t) ==
    [rq EXCEPT !.th[t] = IdleClone,
               !.poisoned = @ \cup {g[2] : g \in {h \in rq.th[t].held : h[1] # "read"}}]

\* a handler starts an ingestion or a query on its clone
StartOperation(t) ==
    /\ rq.impl = "clones"
    /\ ~Running(t)
    /\ \E prog \in IngestPrograms \cup QueryPrograms :
          rq' = [rq EXCEPT !.th[t] = [prog |-> prog, pc |-> 1, held |-> {}, mutating |-> FALSE]]
    /\ UNCHANGED <<cache, documents, trees, symbols, disk, ing, lastText, lastUri, obs>>

\* lock(), write(), read() followed by expect("poisoned")
Acquire(t) ==
    /\ rq.impl = "clones"
    /\ Acquiring(t)
    /\ Holders(t) = {}
    /\ \/ /\ Instruction(t)[2] \notin rq.poisoned
          /\ rq' = [rq EXCEPT !.th[t].held = @ \cup {<<Instruction(t)[1], Instruction(t)[2]>>},
                              !.th[t].pc = @ + 1]
       \/ /\ Instruction(t)[2] \in rq.poisoned
          /\ rq' = Unwind(t)
    /\ UNCHANGED <<cache, documents, trees, symbols, disk, ing, lastText, lastUri, obs>>

\* an insert or a remove under the guards held
Mutate(t) ==
    /\ rq.impl = "clones"
    /\ Running(t)
    /\ Instruction(t) = <<"mutate">>
    /\ rq' = [rq EXCEPT !.th[t].mutating = TRUE, !.th[t].pc = @ + 1]
    /\ UNCHANGED <<cache, documents, trees, symbols, disk, ing, lastText, lastUri, obs>>

\* the end of a cache operation drops its guards
DropGuards(t) ==
    /\ rq.impl = "clones"
    /\ Running(t)
    /\ Instruction(t)[1] = "drop"
    /\ rq' = [rq EXCEPT !.th[t].held = {g \in @ : g[2] \notin Instruction(t)[2]},
                        !.th[t].pc = @ + 1]
    /\ UNCHANGED <<cache, documents, trees, symbols, disk, ing, lastText, lastUri, obs>>

\* the end of the operation drops every guard
Return(t) ==
    /\ rq.impl = "clones"
    /\ Running(t)
    /\ Instruction(t) = <<"return">>
    /\ rq' = [rq EXCEPT !.th[t] = IdleClone]
    /\ UNCHANGED <<cache, documents, trees, symbols, disk, ing, lastText, lastUri, obs>>

\* expect("expected module definition") fails
Panic(t) ==
    /\ rq.impl = "clones"
    /\ Running(t)
    /\ Instruction(t) = <<"panic">>
    /\ rq' = Unwind(t)
    /\ UNCHANGED <<cache, documents, trees, symbols, disk, ing, lastText, lastUri, obs>>

InitClones ==
    /\ cache = EmptyCache
    /\ documents = EmptyMap
    /\ trees = EmptyMap
    /\ symbols = EmptyMap
    /\ disk = EmptyMap
    /\ ing = Idle
    /\ lastText = EmptyMap
    /\ lastUri = {}
    /\ obs = {}
    /\ rq = [impl |-> "clones", th |-> [t \in Clones |-> IdleClone], poisoned |-> {}]

NextClones ==
    \E t \in Clones :
        \/ StartOperation(t)
        \/ Acquire(t)
        \/ Mutate(t)
        \/ DropGuards(t)
        \/ Return(t)
        \/ Panic(t)

SpecClones == InitClones /\ [][NextClones]_vars

-----------------------------------------------------------------------------
(* Hover text assembly: collect_docstrings walks the children of a          *)
(* definition node with a cursor.                                            *)

MaxChildren == 3

ChildKinds == {"docstring", "comment", "type_name"}

\* the children of a definition node: its name is one of them
HoverDefinitionNodes ==
    {[impl |-> "definition_node", children |-> children, pos |-> 0, iterations |-> 0,
      comments |-> <<>>] :
        children \in {s \in SeqsUpTo(ChildKinds, MaxChildren) :
                         \E i \in 1 .. Len(s) : s[i] = "type_name"}}

\* collect_docstrings up to its loop: cursor.goto_first_child()
CollectDocstrings ==
    /\ rq.impl = "definition_node"
    /\ rq' = IF Len(rq.children) = 0
             THEN [rq EXCEPT !.impl = "collected"]
             ELSE [rq EXCEPT !.impl = "collect_docstrings", !.pos = 1]
    /\ UNCHANGED <<cache, documents, trees, symbols, disk, ing, lastText, lastUri, obs>>

\* the loop of collect_docstrings leaves at the first node that is neither a
\* docstring nor a comment
CollectDocstringsLeave ==
    /\ rq.impl = "collect_docstrings"
    /\ rq.children[rq.pos] \notin {"docstring", "comment"}
    /\ rq' = [rq EXCEPT !.impl = "collected"]
    /\ UNCHANGED <<cache, documents, trees, symbols, disk, ing, lastText, lastUri, obs>>

\* one iteration of the loop of collect_docstrings: a comment continues
\* without moving the cursor, a docstring is collected and the cursor moves
\* to the next sibling. The count of iterations stops at MaxChildren + 1.
CollectDocstringsIteration ==
    /\ rq.impl = "collect_docstrings"
    /\ rq.children[rq.pos] \in {"docstring", "comment"}
    /\ rq.iterations <= MaxChildren
    /\ rq' = IF rq.children[rq.pos] = "comment"
             THEN [rq EXCEPT !.iterations = @ + 1]
             ELSE IF rq.pos = Len(rq.children)
                  THEN [rq EXCEPT !.iterations = @ + 1,
                                  !.comments = Append(@, rq.pos),
                                  !.impl = "collected"]
                  ELSE [rq EXCEPT !.iterations = @ + 1,
                                  !.comments = Append(@, rq.pos),
                                  !.pos = @ + 1]
    /\ UNCHANGED <<cache, documents, trees, symbols, disk, ing, lastText, lastUri, obs>>

InitHover ==
    /\ cache = EmptyCache
    /\ documents = EmptyMap
    /\ trees = EmptyMap
    /\ symbols = EmptyMap
    /\ disk = EmptyMap
    /\ ing = Idle
    /\ lastText = EmptyMap
    /\ lastUri = {}
    /\ obs = {}
    /\ rq \in HoverDefinitionNodes

NextHover == CollectDocstrings \/ CollectDocstringsLeave \/ CollectDocstringsIteration

SpecHover == InitHover /\ [][NextHover]_vars

-----------------------------------------------------------------------------
(* Reference definitions of the properties: closed forms, written without the  *)
(* operators of the resolver                                                   *)

\* the directory N levels above a file path
ImpliedRoot(path, N) ==
    IF N <= Len(path) THEN {SubSeq(path, 1, Len(path) - N)} ELSE {}

\* root/seg1/.../segk.adl
ModuleFile(root, module_name) ==
    root \o SubSeq(module_name, 1, Len(module_name) - 1)
         \o <<AdlFileName(module_name[Len(module_name)])>>

SamePackageCandidate(source_uri, source_module, module_name) ==
    {ModuleFile(root, module_name) : root \in ImpliedRoot(UrlPath(source_uri), Len(source_module))}

\* the candidate of the first directory, in declaration order, whose candidate exists
FirstInDirs(dirs, module_name, exists) ==
    LET hits == {i \in 1..Len(dirs) : ModuleFile(dirs[i], module_name) \in exists}
    IN IF hits = {} THEN {}
       ELSE {ModuleFile(dirs[CHOOSE i \in hits : \A j \in hits : i <= j], module_name)}

\* every candidate of an import that exists
ExistingCandidates(source_uri, source_module, module_name, dirs, exists) ==
    (SamePackageCandidate(source_uri, source_module, module_name)
        \cup {ModuleFile(dirs[i], module_name) : i \in 1..Len(dirs)}) \cap exists

\* the one candidate the precedence rule selects
FirstCandidate(source_uri, source_module, module_name, dirs, exists) ==
    LET same == SamePackageCandidate(source_uri, source_module, module_name) \cap exists
    IN IF same # {} THEN same ELSE FirstInDirs(dirs, module_name, exists)

\* the text a file currently has: the stored one, else the one on disk
CurrentText(uri) ==
    IF uri \in DOMAIN documents THEN {documents[uri]}
    ELSE IF UrlPath(uri) \in DOMAIN disk THEN {disk[UrlPath(uri)]}
    ELSE {}

\* the import declarations of a text, by position
ImportsOf(text) == {text.imports[i] : i \in 1..Len(text.imports)}

ImportedFqn(import) == from_module_name_and_type_name(import.module_name, import.type_name)

\* the responses in flight of one kind of request
Responses(ops) == {r \in obs : r.op \in ops}

\* the node at the position of a request, in the text the server holds
RequestNode(r) ==
    IF r.uri \in DOMAIN documents
    THEN LET nodes == find_all_nodes(documents[r.uri])
         IN IF r.position \in DOMAIN nodes THEN {nodes[r.position]} ELSE {}
    ELSE {}

\* where a text defines x: the name of its first definition of x
DefinitionSites(uri, text, x) ==
    {[uri |-> uri, range |-> [site |-> "definition", index |-> k, first |-> 1, last |-> 1]] :
        k \in {k \in DOMAIN text.defs :
                  text.defs[k] = x /\ \A j \in 1..(k - 1) : text.defs[j] # x}}

\* where a text uses x as the type of a field
UsageSites(uri, text, x) ==
    {[uri |-> uri, range |-> [site |-> "use", index |-> u, first |-> 1, last |-> 1]] :
        u \in {u \in DOMAIN text.uses : text.uses[u] = x}}

\* the locations a reference search returned
ReturnedLocations(r) == UNION {Range(locations) : locations \in r.value}

\* the nodes of the subtree of node i in pre-order: the node, then the
\* subtrees of its children from the first to the last
RECURSIVE PreOrder(_, _)
PreOrder(tree, i) ==
    LET RECURSIVE Subtrees(_)
        Subtrees(k) ==
            IF k > Len(children_of(tree, i)) THEN <<>>
            ELSE PreOrder(tree, children_of(tree, i)[k]) \o Subtrees(k + 1)
    IN <<i>> \o Subtrees(1)

-----------------------------------------------------------------------------
(* C1 .. C10 *)

\* C1: soundness of definitionOf.  After any sequence of ingestions, if
\* lookupDefinition(q) = U then the current text of U holds a local definition
\* named q.type_name in module q.module_name; a plain import of a.b.T whose
\* module file exists without defining T does not make the lookup succeed.
C1_DefinitionOfSound ==
    ing.pc = "idle" =>
        \A q \in DOMAIN cache.definition_locations :
            \E text \in CurrentText(cache.definition_locations[q]) : q \in LocalFqns(text)

\* C2: after any sequence of ingestions, definedBy[U] of every ingested file U
\* is exactly the set of FQNs of the definitions in the current text of U;
\* ingesting a file that imports from U adds nothing to definedBy[U].
C2_DefinedByExact ==
    ing.pc = "idle" =>
        \A uri \in DOMAIN lastText :
            GetOrDefault(cache.defined_symbols, uri) = LocalFqns(lastText[uri])

\* C3: idempotence of ingest.  With the file system and the search directories
\* unchanged, ingesting (u, t) a second time right after the first leaves
\* definedBy[u], importedBy[u] and the definitionOf entries that map to u as the
\* first run left them.
C3_IngestIdempotent ==
    [][\A uri \in Urls :
          (/\ ing.pc = "idle"
           /\ lastUri = {uri}
           /\ lastUri' = {uri}
           /\ lastText'[uri] = lastText[uri])
          => Contribution(cache', uri) = Contribution(cache, uri)]_vars

\* C4: invalidation.  When a file U that defined q is ingested again with a text
\* that neither defines nor imports q, lookupDefinition(q) returns none at the
\* end of the ingestion, also when another ingested file still defines q.
C4_InvalidationEvicts ==
    ing.pc = "commit" =>
        \A q \in Fqns :
            (/\ ing.uri \in DOMAIN lastText
             /\ q \in LocalFqns(lastText[ing.uri])
             /\ q \notin LocalFqns(ing.text)
             /\ q \notin GetOrDefault(cache.imported_symbols, ing.uri))
            => lookup_fqn(cache, q) = {}

\* C4 witness: the ingestion of U is at its end, U defined q and no longer does,
\* and another ingested file still defines q
C4_Witness ==
    /\ ing.pc = "commit"
    /\ \E q \in Fqns, other \in DOMAIN lastText :
          /\ ing.uri \in DOMAIN lastText
          /\ q \in LocalFqns(lastText[ing.uri])
          /\ q \notin LocalFqns(ing.text)
          /\ q \notin GetOrDefault(cache.imported_symbols, ing.uri)
          /\ other # ing.uri
          /\ q \in LocalFqns(lastText[other])
          /\ lookup_fqn(cache, q) = {}

C6_SamePackageFirst ==
    rq.impl \in {"modules", "packages"} =>
        \A p \in SamePackageCandidate(rq.source_uri, rq.source_module, rq.imported_module_path) :
            p \in rq.exists => rq.result = {from_file_path(p)}

\* C7: depth correctness.  For a source module of N segments the implied root is
\* the directory N levels above the source file (none when the path is shorter)
\* and the same-package candidate is that root joined with the target segments
\* plus ".adl", for every N and every length of the target.
C7_DepthCorrect ==
    rq.impl = "modules" =>
        /\ rq.adl_root = ImpliedRoot(UrlPath(rq.source_uri), Len(rq.source_module))
        /\ rq.candidate = SamePackageCandidate(rq.source_uri, rq.source_module,
                                               rq.imported_module_path)
        /\ \A p \in rq.candidate : p \in rq.exists => rq.result = {from_file_path(p)}

\* C7 witness: a source module of two segments, a target of one, resolved to the
\* same-package candidate two levels up
C7_Witness ==
    /\ rq.impl = "modules"
    /\ Len(rq.source_module) = 2
    /\ Len(rq.imported_module_path) = 1
    /\ Len(UrlPath(rq.source_uri)) = 4
    /\ rq.result = {from_file_path(ModuleFile(SubSeq(UrlPath(rq.source_uri), 1, 2),
                                              rq.imported_module_path))}

\* C8: search-directory order.  When the same-package candidate does not exist,
\* resolve returns the candidate of the first search directory, in declaration
\* order, whose candidate exists, the same in every run with the same inputs.
C8_DeclarationOrder ==
    (/\ rq.impl \in {"modules", "packages"}
     /\ SamePackageCandidate(rq.source_uri, rq.source_module, rq.imported_module_path)
            \cap rq.exists = {})
    => rq.result = {from_file_path(p) :
                       p \in FirstInDirs(rq.dirs, rq.imported_module_path, rq.exists)}

C10_UnresolvableImportSkipped ==
    [][\A uri \in Urls :
          (lastUri' = {uri} /\ ing.pc = "idle") =>
              LET text == lastText'[uri]
                  unresolvable == {import \in ImportsOf(text) :
                      ExistingCandidates(uri, text.module, import.module_name,
                                         search_dirs, DOMAIN disk) = {}}
              IN /\ \A import \in unresolvable :
                       /\ modules_resolve_import(search_dirs, uri, text.module,
                              import.module_name, document_exists) = {}
                       /\ \A q \in GetOrDefault(cache'.imported_symbols, uri) :
                              q.module_name # import.module_name
                       /\ \A q \in DOMAIN cache'.definition_locations :
                              q.module_name = import.module_name =>
                                  \/ q \in LocalFqns(text)
                                  \/ /\ q \in DOMAIN cache.definition_locations
                                     /\ cache'.definition_locations[q] = cache.definition_locations[q]
                 /\ unresolvable = ImportsOf(text) => ing'.pc = "idle"]_vars

\* C10 witness: a file whose import has no candidate on disk has been ingested
\* to its end and the imported FQN has no definitionOf entry
C10_Witness ==
    /\ ing.pc = "idle"
    /\ \E uri \in lastUri : \E import \in ImportsOf(lastText[uri]) :
          /\ ExistingCandidates(uri, lastText[uri].module, import.module_name,
                                search_dirs, DOMAIN disk) = {}
          /\ import.kind = "FullyQualified"
          /\ lookup_fqn(cache, ImportedFqn(import)) = {}
          /\ uri \notin get_files_importing_type(cache, ImportedFqn(import))

-----------------------------------------------------------------------------
(* C11 .. C20 *)

\* C11: parse failure leaves the state untouched.  When parse returns no tree
\* for (uri, text), ingest returns without changing the document store, the
\* symbols cache or any of the three cache indices, so that the previous
\* entries of uri stay readable.
C11_ParseFailureKeepsState ==
    [][\A response \in obs' :
          (/\ ing.pc = "idle"
           /\ response.op = "ingest_document"
           /\ response.result = {})
          => /\ documents' = documents
             /\ trees' = trees
             /\ symbols' = symbols
             /\ cache' = cache
             /\ ing' = ing]_vars

\* C11 witness: the parse of a new text for an ingested file U has failed, and
\* the text, the tree, the symbols and a definition of U are still there
C11_Witness ==
    \E response \in obs :
        /\ response.op = "ingest_document"
        /\ response.result = {}
        /\ ing.pc = "idle"
        /\ response.uri \in DOMAIN documents
        /\ response.uri \in DOMAIN trees
        /\ response.uri \in DOMAIN symbols
        /\ \E q \in Fqns : lookup_fqn(cache, q) = {response.uri}

C13_ReferencesComplete ==
    \A r \in Responses({"find_references"}) : \A n \in RequestNode(r) :
        LET M == from_file_path(QueryM)
            F1 == from_file_path(QueryF1)
            F2 == from_file_path(QueryF2)
            T == from_module_name_and_type_name(<<"a">>, n.text[1])
        IN (/\ {M, F1, F2} \subseteq DOMAIN documents
            /\ n.text[1] \in Range(documents[M].defs)
            /\ \A F \in {F1, F2} :
                  /\ F \in DOMAIN cache.imported_symbols
                  /\ T \in cache.imported_symbols[F]
                  /\ n.text[1] \notin Range(documents[F].defs))
           => (/\ r.error = {}
               /\ UNION {UsageSites(uri, documents[uri], n.text[1]) : uri \in {M, F1, F2}}
                      \subseteq ReturnedLocations(r))

\* C14: star-import lookup.  If the ingested file F contains `import m.*`, the
\* file of module m exists and locally defines X, then definition lookup on a
\* usage of X in F returns the location of X's definition in m's file, without
\* an import declaration of X in F.
C14_StarImportLookup ==
    \A r \in Responses({"goto_definition"}) : \A n \in RequestNode(r) :
        \A m \in {uri \in DOMAIN documents : UrlPath(uri) \in DOMAIN disk} :
            LET F == documents[r.uri]
            IN (/\ n.range.site = "use"
                /\ n.text[1] \notin Range(F.defs)
                /\ \E j \in DOMAIN F.imports :
                      F.imports[j].kind = "StarImport" /\ F.imports[j].module_name = documents[m].module
                /\ n.text[1] \in Range(documents[m].defs))
               => (r.error = {} /\ r.value = DefinitionSites(m, documents[m], n.text[1]))

\* C15: import classification.  `a.b.T` is a plain import with module name a.b
\* and imported identifier T, and `a.b.*` is a star import with module name
\* a.b and no imported identifier, for every module path a.b of one or more
\* segments.
C15_ImportClassified ==
    rq.impl = "classified" =>
        LET n == Len(rq.path)
            dotted(path) == [i \in 1..(2 * Len(path) - 1) |->
                                IF i % 2 = 1 THEN path[(i + 1) \div 2] ELSE "."]
        IN /\ (~rq.star /\ n >= 2) =>
                /\ rq.kind = "FullyQualified"
                /\ rq.module_name = dotted(SubSeq(rq.path, 1, n - 1))
                /\ rq.module_path = SubSeq(rq.path, 1, n - 1)
                /\ rq.type_name = {rq.path[n]}
           /\ rq.star =>
                /\ rq.kind = "StarImport"
                /\ rq.module_name = dotted(rq.path)
                /\ rq.module_path = rq.path
                /\ rq.type_name = {}

\* C15 witness: `import a.b.T;` has been classified as the plain import of T
\* from module a.b
C15_Witness ==
    /\ rq.impl = "classified"
    /\ rq.path = <<"a", "b", "T">>
    /\ ~rq.star
    /\ rq.kind = "FullyQualified"
    /\ rq.module_name = <<"a", ".", "b">>
    /\ rq.type_name = {"T"}

\* C16: a star import is one level.  After the ingestion of F with
\* `import m.*`, the FQNs of module m in importedBy[F] are exactly the local
\* definitions of the file of m, as the document store holds it; what that
\* file imports itself is not among them.
C16_StarImportOneLevel ==
    [][\A uri \in Urls :
          (lastUri' = {uri} /\ ing.pc = "idle" /\ ing'.pc = "idle") =>
              \A import \in ImportsOf(lastText'[uri]) :
                  import.kind = "StarImport" =>
                      \A target_uri \in modules_resolve_import(search_dirs, uri,
                              lastText'[uri].module, import.module_name, document_exists) :
                          (target_uri # uri /\ target_uri \in DOMAIN documents') =>
                              {q \in GetOrDefault(cache'.imported_symbols, uri) :
                                      q.module_name = import.module_name}
                                  = LocalFqns(documents'[target_uri])]_vars

\* C17: local definitions first.  Definition lookup for identifier x in file F
\* returns F's own definition of x whenever F has one, also when F has an
\* import declaration naming x; the cache is consulted only when F has no local
\* definition of x.
C17_LocalDefinitionFirst ==
    \A r \in Responses({"goto_definition"}) : \A n \in RequestNode(r) :
        (r.lookup /\ n.text[1] \in Range(documents[r.uri].defs))
            => (/\ r.error = {}
                /\ r.value = DefinitionSites(r.uri, documents[r.uri], n.text[1])
                /\ ~r.cache_lookup)

\* C18 as stated: definition lookup proceeds exactly for the identifiers whose
\* immediate parent is a local-type-name node and returns none at every other
\* position.
C18_LookupForTypeNames ==
    \A r \in Responses({"goto_definition"}) :
        /\ r.lookup <=> \E n \in RequestNode(r) :
                            /\ n.kind = "identifier"
                            /\ Len(n.ancestors) >= 2 /\ n.ancestors[2] = "type_name"
        /\ ~r.lookup => (r.error = {} /\ r.value = {})

\* C18 amended: definition lookup proceeds exactly for the identifiers whose
\* immediate parent is a scoped-name node and returns none at every other
\* position.
C18_LookupForScopedNames ==
    \A r \in Responses({"goto_definition"}) :
        /\ r.lookup <=> \E n \in RequestNode(r) :
                            /\ n.kind = "identifier"
                            /\ Len(n.ancestors) >= 2 /\ n.ancestors[2] = "scoped_name"
        /\ ~r.lookup => (r.error = {} /\ r.value = {})

\* C18 witness: a lookup on the type of a field has proceeded and found the
\* definition in the file
C18_Witness ==
    \E r \in Responses({"goto_definition"}) : \E n \in RequestNode(r) :
        /\ n.range.site = "use"
        /\ r.lookup
        /\ r.value = DefinitionSites(r.uri, documents[r.uri], n.text[1])
        /\ r.value # {}

\* C19: cross-file failures degrade to not-found.  When an identifier resolves
\* to an import, definition lookup and hover answer with a result, none or
\* empty if the import cannot be followed, and never with an error response.
C19_NoErrorResponse ==
    \A r \in Responses({"goto_definition", "hover"}) : r.cache_lookup => r.error = {}

\* C20: diagnostics are never fatal.  The ingestion of a file whose tree has no
\* module definition, such as an empty file, runs to its end; it does not
\* abort and it does not panic.
C20_DiagnosticsNeverFatal ==
    ing.text.module = <<>> => ing.pc # "panicked"

\* the write guards ingest_document holds while the imports are resolved: a
\* panic below resolve_document_imports unwinds through them and poisons their
\* locks, and every later read() or write() of such a lock panics in its expect
PoisonedLocks ==
    IF ing.pc = "panicked"
    THEN {"symbols", "adl_file_to_package_root", "package_root_to_adl_files",
          "documents", "trees"}
    ELSE {}

\* C21: failure isolation.  However an ingestion ends, by a parse failure, a
\* missing module definition or an unreadable import target, it leaves no lock
\* of the Document store or of the cache unusable, so that the handlers that
\* come later can take them.
C21_FailureIsolation == PoisonedLocks = {}

\* C22: a didChangeConfiguration that carries searchDirs clears the Document
\* store and the cache and ingests the workspace again: once it has been
\* processed, every stored document is a file of the disk with the text the
\* disk holds, and definedBy and importedBy have keys only among the stored
\* documents.
C22_ConfigurationReingests ==
    (\E r \in obs : r.op = "did_change_configuration") =>
        /\ \A uri \in DOMAIN documents :
              /\ UrlPath(uri) \in DOMAIN disk
              /\ documents[uri] = disk[UrlPath(uri)]
        /\ DOMAIN cache.defined_symbols \subseteq DOMAIN documents
        /\ DOMAIN cache.imported_symbols \subseteq DOMAIN documents

\* C23: notification order.  After any sequence of notifications that carry a
\* text, the Document store holds for every URI the text of the last one, the
\* stored tree is the parse of that text, and the cache entries the URI owns,
\* its definedBy set and the definitionOf entries that map to it, are the
\* definitions of that same text.
C23_LastTextWins ==
    ing.pc = "idle" =>
        \A uri \in DOMAIN lastText :
            /\ uri \in DOMAIN documents
            /\ documents[uri] = lastText[uri]
            /\ trees[uri] \in parse(documents[uri])
            /\ GetOrDefault(cache.defined_symbols, uri) = LocalFqns(documents[uri])
            /\ \A q \in DOMAIN cache.definition_locations :
                  cache.definition_locations[q] = uri => q \in LocalFqns(documents[uri])

\* C24: close is a no-op.  The step that processes a didClose leaves the
\* Document store, the trees, the symbols and the three indices of the cache
\* as they were.
C24_CloseIsNoOp ==
    [][(\E r \in obs' : r.op = "did_close") =>
          UNCHANGED <<documents, trees, symbols, cache>>]_vars

\* C24 witness: a didClose has been processed for a file that is in the store
\* and that the cache maps a name to, and the lookup of that name still
\* answers with the file
C24_Witness ==
    \E r \in obs :
        /\ r.op = "did_close"
        /\ r.uri \in DOMAIN documents
        /\ r.uri \in DOMAIN symbols
        /\ \E fqn \in Fqns : lookup_fqn(cache, fqn) = {r.uri}
        /\ documents[r.uri] # disk[UrlPath(r.uri)]

\* C25: a cold lookup miss triggers ingestion.  After the response to a
\* definition, hover or references request for a file that no notification and
\* no workspace discovery has ingested and that the disk holds, the store holds
\* the file with the text of the disk, the cache holds its definitions under
\* its URI, and every import by name whose module file exists is among its
\* imports; also when the file was loaded before as the target of a star
\* import.
C25_ColdMissIngests ==
    ing.pc = "idle" =>
        \A r \in Responses({"goto_definition", "hover", "find_references"}) :
            (r.uri \notin DOMAIN lastText /\ UrlPath(r.uri) \in DOMAIN disk) =>
                /\ r.uri \in DOMAIN documents
                /\ r.uri \in DOMAIN trees
                /\ documents[r.uri] = disk[UrlPath(r.uri)]
                /\ LocalFqns(documents[r.uri]) \subseteq GetOrDefault(cache.defined_symbols, r.uri)
                /\ \A q \in LocalFqns(documents[r.uri]) : lookup_fqn(cache, q) = {r.uri}
                /\ \A import \in ImportsOf(documents[r.uri]) :
                      (/\ import.kind = "FullyQualified"
                       /\ modules_resolve_import(search_dirs, r.uri, documents[r.uri].module,
                                                 import.module_name, document_exists) # {})
                      => from_module_name_and_type_name(import.module_name, import.type_name)
                             \in GetOrDefault(cache.imported_symbols, r.uri)

\* C26: star-import expansion reads one version of the target.  When file F
\* with `import m.*` is ingested and the file of m is already in the Document
\* store, the FQNs of m registered as imports of F are the local definitions of
\* the text the store holds for the target, whatever the disk holds now.
C26_StarImportOneVersion ==
    [][\A uri \in Urls :
          (lastUri' = {uri} /\ ing.pc = "idle" /\ ing'.pc = "idle") =>
              \A import \in ImportsOf(lastText'[uri]) :
                  import.kind = "StarImport" =>
                      \A target_uri \in modules_resolve_import(search_dirs, uri,
                              lastText'[uri].module, import.module_name, document_exists) :
                          (/\ target_uri # uri
                           /\ target_uri \in DOMAIN documents
                           /\ target_uri \in DOMAIN trees) =>
                              {q \in GetOrDefault(cache'.imported_symbols, uri) :
                                      q.module_name = import.module_name}
                                  = LocalFqns(documents[target_uri])]_vars

\* C27: one hop.  The ingestion of file U changes importedBy at key U only:
\* importedBy[V] of every other file V is as it was, also of a target that was
\* loaded while the imports of U were resolved and that has import
\* declarations of its own.
C27_OneHop ==
    [][\A uri \in Urls :
          (lastUri' = {uri} /\ ing.pc = "idle") =>
              \A other \in Urls \ {uri} :
                  /\ (other \in DOMAIN cache'.imported_symbols)
                        = (other \in DOMAIN cache.imported_symbols)
                  /\ GetOrDefault(cache'.imported_symbols, other)
                        = GetOrDefault(cache.imported_symbols, other)]_vars

\* C27 witness: the ingestion of a file with a star import has loaded the
\* target from disk, the target has a star import of its own and defines a
\* type, and importedBy has an entry for the ingested file and none for the
\* target
C27_Witness ==
    /\ ing.pc = "idle"
    /\ \E uri \in lastUri, target_uri \in DOMAIN documents :
          /\ target_uri # uri
          /\ target_uri \notin DOMAIN lastText
          /\ documents[target_uri].imports # <<>>
          /\ documents[target_uri].defs # <<>>
          /\ LocalFqns(documents[target_uri]) \subseteq GetOrDefault(cache.imported_symbols, uri)
          /\ target_uri \notin DOMAIN cache.imported_symbols

\* C28: single-hop definition lookup.  A location that a definition lookup
\* returns lies in one of two files, the file at the cursor or the file that
\* definitionOf maps the imported FQN to; when that file only imports the name
\* or does not contain it, the lookup follows no second import into a third
\* file.
C28_SingleHop ==
    [][\A r \in obs' :
          (obs = {} /\ r.op = "goto_definition") =>
              \A loaded \in {get_or_parse_document_with_content(Machine, r.uri)} :
                  \A l \in r.value :
                      \/ l.uri = r.uri
                      \/ \E import \in ImportsOf(loaded.documents[r.uri]) :
                            lookup_fqn(loaded.cache,
                                       from_module_name_and_type_name(import.module_name,
                                           find_all_nodes(loaded.documents[r.uri])[r.position].text[1]))
                                = {l.uri}]_vars

\* C28 witness: the lookup went to the target of the import, the target only
\* imports the name from a module whose file defines it, and the lookup has
\* ended there without a location
C28_Witness ==
    \E r \in Responses({"goto_definition"}) : \E n \in RequestNode(r) :
        /\ r.cache_lookup
        /\ r.value = {}
        /\ \E import \in ImportsOf(documents[r.uri]) :
              \E target_uri \in lookup_fqn(cache, from_module_name_and_type_name(
                                                      import.module_name, n.text[1])) :
                  /\ target_uri \in DOMAIN documents
                  /\ n.text[1] \notin Range(documents[target_uri].defs)
                  /\ \E second \in ImportsOf(documents[target_uri]) :
                        /\ second.type_name = n.text[1]
                        /\ \E third \in lookup_fqn(cache, from_module_name_and_type_name(
                                                             second.module_name, n.text[1])) :
                              /\ third \in DOMAIN documents
                              /\ third # r.uri
                              /\ n.text[1] \in Range(documents[third].defs)

\* C29: for a type x that M defines, a reference search issued on an
\* occurrence of x, in M or in a file that imports x from M, returns no
\* import-declaration site, and it returns the definition site of x if and
\* only if includeDeclaration is set.
C29_DeclarationIffRequested ==
    \A r \in Responses({"find_references"}) : \A n \in RequestNode(r) :
        LET M == from_file_path(QueryM)
            T == from_module_name_and_type_name(<<"a">>, n.text[1])
        IN (/\ M \in DOMAIN documents
            /\ n.text[1] \in Range(documents[M].defs)
            /\ \/ r.uri = M
               \/ /\ r.uri \in DOMAIN cache.imported_symbols
                  /\ T \in cache.imported_symbols[r.uri]
                  /\ n.text[1] \notin Range(documents[r.uri].defs))
           => (/\ \A l \in ReturnedLocations(r) : l.range.site # "import"
               /\ r.include_declaration
                      <=> DefinitionSites(M, documents[M], n.text[1])
                              \subseteq ReturnedLocations(r))

\* C30: no duplicate references.  The list a reference search returns holds
\* every location at most once: a scoped name and the identifier below it at
\* the same span are one entry, and the file of the request is searched once,
\* also when it is among the files that import the type.
C30_NoDuplicateReferences ==
    \A r \in Responses({"find_references"}) : \A locations \in r.value :
        \A i, j \in DOMAIN locations : locations[i] = locations[j] => i = j

\* C30 witness: the search was issued on the name of a type in the file that
\* defines it, the file is itself among the files that import the type, it
\* uses the type in a field, and another file that imports the type uses it
\* too; both usages are in the list
C30_Witness ==
    \E r \in Responses({"find_references"}) : \E n \in RequestNode(r) :
        \E other \in QueryUrls \ {r.uri} :
            LET fqn == from_module_name_and_type_name(documents[r.uri].module, n.text[1])
            IN /\ r.uri \in get_files_importing_type(cache, fqn)
               /\ other \in get_files_importing_type(cache, fqn)
               /\ UsageSites(r.uri, documents[r.uri], n.text[1]) # {}
               /\ UsageSites(other, documents[other], n.text[1]) # {}
               /\ UsageSites(r.uri, documents[r.uri], n.text[1])
                      \cup UsageSites(other, documents[other], n.text[1])
                      \subseteq ReturnedLocations(r)

-----------------------------------------------------------------------------
(* C31 .. C37 *)

\* C31: imports out of order.  For every sequence of module-body members, an
\* import declaration gets the diagnostic if and only if it stands after the
\* first member that is neither an import declaration nor a comment nor a
\* docstring, and nothing but an import declaration gets it; a body of imports
\* and comments only yields none.
C31_OutOfOrderImports ==
    rq.impl = "diagnosed" =>
        LET flagged == {i - 1 : i \in Range(rq.diagnostics)}
            Leading == {"import_declaration", "comment", "docstring"}
        IN /\ flagged \subseteq {i \in DOMAIN rq.members : rq.members[i] = "import_declaration"}
           /\ \A i \in DOMAIN rq.members :
                 rq.members[i] = "import_declaration" =>
                     (i \in flagged <=> \E j \in 1..(i - 1) : rq.members[j] \notin Leading)
           /\ Range(rq.members) \subseteq Leading => rq.diagnostics = <<>>
           /\ \A i, j \in DOMAIN rq.diagnostics : i < j => rq.diagnostics[i] < rq.diagnostics[j]

\* C31 witness: a body with an import, a struct and a second import has been
\* diagnosed, and the second import alone has the diagnostic
C31_Witness ==
    /\ rq.impl = "diagnosed"
    /\ rq.members = <<"import_declaration", "struct_definition", "import_declaration">>
    /\ rq.diagnostics = <<4>>

\* C32: tree search order.  For every tree and every kind asked for,
\* find_all_nodes returns exactly the nodes of that kind in pre-order, and
\* find_first_node returns the first of them, or none when there is none.
C32_TreeSearchOrder ==
    rq.impl = "walked" =>
        LET matching == SelectSeq(PreOrder(rq.tree, 1), LAMBDA i : rq.tree.kind[i] = rq.f)
        IN /\ rq.all = matching
           /\ rq.first = IF matching = <<>> THEN {} ELSE {matching[1]}

\* C32 witness: the search returned two matches that stand in pre-order
\* against the order of their numbers, and the first match is not the root
C32_Witness ==
    /\ rq.impl = "walked"
    /\ Len(rq.all) >= 2
    /\ \E k \in 1..(Len(rq.all) - 1) : rq.all[k] > rq.all[k + 1]
    /\ rq.first = {rq.all[1]}
    /\ rq.first # {1}

\* C33: diagnostics are published with the commit.  When the diagnostics of a
\* URI have been published, its new text, its tree and its definitions have
\* been written; an ingestion that stopped at a parse failure has published
\* nothing; and an ingestion that has ended otherwise has published.
C33_PublishedWithCommit ==
    /\ \A r \in obs :
          r.op = "publish_diagnostics" =>
              /\ ing.pc = "idle"
              /\ r.uri \in DOMAIN documents
              /\ r.uri \in DOMAIN trees
              /\ r.uri \in lastUri
              /\ documents[r.uri] = lastText[r.uri]
              /\ trees[r.uri] \in parse(documents[r.uri])
              /\ LocalFqns(documents[r.uri]) \subseteq GetOrDefault(cache.defined_symbols, r.uri)
    /\ \A r \in obs :
          (r.op = "ingest_document" /\ r.result = {}) =>
              \A p \in obs : p.op # "publish_diagnostics"
    /\ ing.pc = "panicked" =>
          \E r \in obs : r.op = "publish_diagnostics" /\ r.uri = ing.uri

\* C34: after every cache operation, every name q that definition_locations
\* maps to a file U is a member of defined_symbols[U], also when several
\* files define q
C34_IndexCoupling ==
    \A q \in DOMAIN cache.definition_locations :
        q \in GetOrDefault(cache.defined_symbols, cache.definition_locations[q])

\* two files define q, the later one has taken over definition_locations[q],
\* and a handler's ingestion has run to its end since
C34_Witness ==
    /\ ing.pc = "idle"
    /\ \E r \in obs : r.op = "publish_diagnostics" /\ r.uri \in lastUri
    /\ \E q \in DOMAIN cache.definition_locations, other \in DOMAIN cache.defined_symbols :
          /\ other # cache.definition_locations[q]
          /\ q \in cache.defined_symbols[other]
          /\ q \in cache.defined_symbols[cache.definition_locations[q]]

\* C35: in no interleaving of ingestions and queries on clones of the server
\* is there a set of clones each waiting for a lock that another clone of
\* the set holds or is queued for
C35_NoWaitingCycle ==
    rq.impl = "clones" =>
        \A C \in (SUBSET Clones) \ {{}} :
            \E t \in C : ~(Blocked(t) /\ (Holders(t) \cup QueuedBehind(t)) \cap C # {})

\* an ingestion inside clear_source_caches, holding two of its locks, waits
\* for definition_locations, which a query is reading, while another
\* ingestion waits for the parser
C35_Witness ==
    /\ rq.impl = "clones"
    /\ \E t, u, v \in Clones :
          /\ Acquiring(t)
          /\ Instruction(t) = <<"write", "definition_locations">>
          /\ <<"write", "imported_symbols">> \in rq.th[t].held
          /\ <<"write", "documents">> \in rq.th[t].held
          /\ u \in Holders(t)
          /\ <<"read", "definition_locations">> \in rq.th[u].held
          /\ Acquiring(v)
          /\ Instruction(v) = <<"lock", "parser">>
          /\ t \in Holders(v)

\* C36: at most one ingestion is between its first and its last state
\* mutation at any time
C36_OneIngestionAtATime ==
    rq.impl = "clones" =>
        \A t, u \in Clones : (rq.th[t].mutating /\ rq.th[u].mutating) => t = u

\* an ingestion has evicted its file and is registering a definition while
\* another ingestion waits for the parser mutex it holds
C36_Witness ==
    /\ rq.impl = "clones"
    /\ \E t, u \in Clones :
          /\ rq.th[t].mutating
          /\ <<"lock", "parser">> \in rq.th[t].held
          /\ <<"write", "documents">> \in rq.th[t].held
          /\ <<"write", "defined_symbols">> \in rq.th[t].held
          /\ <<"write", "imported_symbols">> \notin rq.th[t].held
          /\ Acquiring(u)
          /\ Instruction(u) = <<"lock", "parser">>
          /\ t \in Holders(u)

\* C37: collect_docstrings runs at most one iteration of its loop per child
\* of the definition node, also when it meets a plain comment
C37_OneStepPerChild ==
    rq.impl \in {"collect_docstrings", "collected"} =>
        rq.iterations <= Len(rq.children)

====
